---- MODULE Spec2Model ----
(***************************************************************************)
(* Model of installfedoraonzfs: the Undoer ledger, block-device            *)
(* acquisition (blockdev_context) and filesystem/pool acquisition          *)
(* (setup_boot_filesystems, filesystem_context), with the host resources   *)
(* they act on (loop devices, partition nodes, mounts, pools, LUKS); the   *)
(* stage loop of install_fedora with its entry point; and the boot         *)
(* supervisor (biiq, boot_image_in_qemu, the BootDriver thread).           *)
(***************************************************************************)
EXTENDS Integers, Sequences, FiniteSets, TLC

(***************************************************************************)
(* Bounds                                                                  *)
(***************************************************************************)
\* appends a client of one Undoer performs in a behaviour
MaxAppends == 3
\* undo actions / external commands that fail in a behaviour
MaxFail == 2
\* calls of blockdev_context in a behaviour
MaxRuns == 2
\* characters in a password or passphrase
MaxPwLen == 2
\* qemu_timeout in seconds, scaled down from 360
QemuTimeout == 2
\* console items (lines, prompts) the guest writes during one boot
MaxConsole == 3
\* calls of biiq in a behaviour
MaxBoots == 1
\* the largest N given to retry()
MaxRetries == 2
\* calls of one wrapped callable in a behaviour
MaxCalls == 4
\* calls of ensure_packages_installed by one installer process
MaxPmCalls == 2
\* calls of the functions of install_fedora that open the context managers
MaxScopes == 2
\* console items a guest that boots without failure writes
MaxPrompts == 4
\* chunks an input file of a Tee delivers
MaxChunks == 2
\* the largest value of the argument tries of umount
MaxTries == 3

(***************************************************************************)
(* Names of host resources                                                 *)
(***************************************************************************)
LoopDevs == {"loop0", "loop1", "loop2"}
NoFile == "none"

\* handles used by a direct client of the Undoer (two mounts, a loop device)
HandleA == "mnt/a"
HandleB == "mnt/b"
HandleC == "loop0"

Undoers == {"u", "bd", "fs"}

\* whole disks that can be given as a volume: /dev/sdb has partitions sdbN,
\* /dev/disk/by-id/wwn-x has partitions wwn-x-partN
Disks == {"sdb", "wwn-x"}
BackingFiles == {"vol.img", "boot.img"}
Media == BackingFiles \cup Disks
Devs == LoopDevs \cup Disks

\* what filesystem_context works on: bootpart, efipart, rootpart, the swap zvol
FsParts == {"boot", "efi", "root", "swap"}
NoUuid == ""
Blank == [type |-> "none", uuid |-> NoUuid]
PoolName == "tank"

\* a partition path is a device and the suffix appended to its path
Part(dev, sfx) == [dev |-> dev, sfx |-> sfx]
NoParts == [root |-> Part(NoFile, ""), boot |-> Part(NoFile, ""),
            efi |-> Part(NoFile, "")]

VARIABLES
    actions,     \* Undoer.actions of each Undoer: sequence of [typ, o, id]
    nextId,      \* creation stamp of the next ledger entry (list identity)
    upc,         \* position inside Undoer.undo
    uwho,        \* the Undoer whose undo() is running
    ucaller,     \* who called undo()
    todo,        \* reversed(list(enumerate(self.actions[:]))) not yet visited
    snap,        \* self.actions[:] taken when undo() started
    calls,       \* undo actions the running undo() has invoked: [e, res]
    done,        \* ids of the entries whose undo action has succeeded
    redone,      \* an undo action was invoked for an entry already in done
    nfail,       \* failures so far
    wpc,         \* position of the client relative to its `with undoer:` block
    bodyExc,     \* the with body ended by an exception
    exitCalls,   \* undo() calls made by __exit__ for the current with block
    propagated,  \* what left the last with block: "none", "body", "undo"
    mounted,     \* mountpoints currently mounted
    lodev,       \* loop device -> backing file, or NoFile
    pools,       \* active (imported) pools
    luksOpen,    \* open LUKS mappings
    dirs,        \* directories an Undoer may have to remove
    visible,     \* device -> numbers of its partitions that have a device node
    files,       \* regular files that exist (backing files)
    ptable,      \* medium -> partition numbers in its on-disk partition table
    cfgVol,      \* blockdev_context argument voldev
    cfgBoot,     \* blockdev_context argument bootdev, NoFile for None
    bpc,         \* position inside blockdev_context
    bcreate,     \* blockdev_context argument create
    curVol,      \* local voldev (the loop device once attached)
    curBoot,     \* local bootdev
    parts,       \* (rootpart, bootpart, efipart) found by the probes / yielded
    bexc,        \* an exception is leaving the `with undoer:` of blockdev_context
    bres,        \* how the last blockdev_context ended
    bruns,       \* blockdev_context calls so far
    ranGdisk,    \* partition_boot was called in the current call
    madeFile,    \* create_file was called in the current call
    yields,      \* what the calls that yielded produced: [create, parts, ranGdisk]
    lodev0,      \* the loop attachments before the first blockdev_context
    lukspw,      \* filesystem_context is given a lukspassword
    blk,         \* what blkid reports for boot, efi, root, swap: [type, uuid]
    nextUuid,    \* number of the next UUID a formatting tool makes up
    poolDisk,    \* the pool exists on the root device
    datasets,    \* datasets of the pool
    fpc,         \* position inside filesystem_context
    fcreate,     \* filesystem_context argument create
    luksName,    \* local luksuuid
    fexc,        \* "acq": an exception left the step at fpc; "body": the body
    ferr,        \* what the exception names
    fres,        \* how the last filesystem_context ended
    fruns,       \* filesystem_context calls so far
    created,     \* creating commands the current call has run
    setups       \* setup_boot_filesystems calls that returned

ledgerVars == <<actions, nextId>>
undoVars == <<upc, uwho, ucaller, todo, snap, calls, done, redone, nfail>>
withVars == <<wpc, bodyExc, exitCalls, propagated>>
hostVars == <<mounted, lodev, pools, luksOpen, dirs, visible>>
diskVars == <<files, ptable>>
bdVars == <<cfgVol, cfgBoot, bpc, bcreate, curVol, curBoot, parts, bexc, bres,
            bruns, ranGdisk, madeFile, yields, lodev0>>
fsDisk == <<blk, nextUuid, poolDisk, datasets>>
fsLocals == <<fpc, fcreate, luksName, fexc, ferr, fres, fruns, created, setups>>
fsVars == <<lukspw, fsDisk, fsLocals>>
ctxVars == <<diskVars, bdVars, fsVars>>

VARIABLES
    preflight,     \* what install_fedora_on_zfs finds before it calls install_fedora
    break_before,  \* install_fedora argument break_before, "none" for None
    short_circuit, \* the local short_circuit, "none" for None
    short0,        \* install_fedora argument short_circuit as given
    lukspassword,  \* argument lukspassword: sequence of ordinals, <<>> for None
    rootpassword,  \* argument rootpassword: sequence of ordinals
    spc,           \* position inside install_fedora_on_zfs / install_fedora
    stage,         \* index of the loop variable stage in the stage list
    ran,           \* stages whose body has been called, in call order
    returned,      \* stages whose body has returned, in order
    sexc,          \* the exception leaving install_fedora, "none" if none
    brokeAt,       \* e.args[0] of the BreakingBefore raised
    status         \* what install_fedora_on_zfs returns, "uncaught" if it raises

stageVars == <<preflight, break_before, short_circuit, short0, lukspassword,
               rootpassword, spc, stage, ran, returned, sexc, brokeAt, status>>

VARIABLES
    interactive,   \* boot_image_in_qemu argument interactive_qemu
    kvm,           \* detect_qemu found hardware acceleration
    factor,        \* biiq argument timeout_factor
    withLuks,      \* the BootDriver has a LUKS passphrase to type
    bqpc,          \* position inside biiq
    attempts,      \* boot_image_in_qemu calls made by the current biiq call
    boots,         \* biiq calls so far
    biiqRes,       \* how the last biiq call ended
    kerneltempdir, \* the scratch directory of biiq exists
    qpc,           \* position inside boot_image_in_qemu
    budget,        \* local proper_timeout
    emu,           \* the emulator process: "none", "running", "exited"
    retcode,       \* exit status of the emulator process
    killed,        \* qemu_process.kill() was called
    aliveAtKill,   \* driver.is_alive() when kill() was called
    pending,       \* console output written by the guest and not read yet
    emitted,       \* console items the guest has written
    dpc,           \* the BootDriver thread: "new", "reading", "dead"
    derror,        \* BootDriver.error, "none" for None
    sawMarker,     \* a shutdown marker is in BootDriver.output
    luksState,     \* local luks_passphrase_prompt_state
    loginState,    \* local login_prompt_state
    nread,         \* console items the driver has read
    nwritten,      \* strings the driver has written to the console
    lastline,      \* prompts in the local lastline, the line not yet ended
    typed,         \* what the driver has written to the console, in order
    firstMatch,    \* first line read that held a failure pattern: its patterns
    readAfter,     \* console items read after self.error was set
    vres           \* how the last boot_image_in_qemu ended

biiqVars == <<factor, bqpc, attempts, boots, biiqRes, kerneltempdir>>
superVars == <<interactive, kvm, qpc, budget, vres>>
emuVars == <<emu, retcode, killed, aliveAtKill, pending, emitted>>
driverVars == <<withLuks, dpc, derror, sawMarker, luksState, loginState, nread,
                nwritten, lastline, typed, firstMatch, readAfter>>
vmVars == <<biiqVars, superVars, emuVars, driverVars>>

VARIABLES
    rN0,           \* retry.__init__ argument N
    rN,            \* the attribute self.N of the retry object
    rpc,           \* the retryer: "idle", "calling", "returned", "raised"
    rlog,          \* how each invocation of kallable by the current call ended
    rcalls         \* calls of the wrapped callable so far

retryVars == <<rN0, rN, rpc, rlog, rcalls>>

VARIABLES
    pmKind,        \* class of the package manager of each installer process
    pmCache,       \* self._cachedir is set (chroot package manager)
    pmRel,         \* self.releasever (chroot package manager)
    pmInst,        \* the requested packages are installed in the target
    pmpc,          \* position inside ensure_packages_installed, "idle" outside
    pmExc,         \* an exception is propagating out of the current call
    pmCmds,        \* commands the current call has run, in order
    pmCalls,       \* calls of ensure_packages_installed so far
    pmPrevOk,      \* an earlier call of this process returned normally
    pmMount,       \* local cachemount: the cache is mounted in the chroot
    lockOwner      \* process holding the flock on each lock file, 0 if none

pmVars == <<pmKind, pmCache, pmRel, pmInst, pmpc, pmExc, pmCmds, pmCalls,
            pmPrevOk, pmMount, lockOwner>>

VARIABLES
    scope,         \* the function of install_fedora whose with statement is open
    npc,           \* position in it: "idle", "open", "bodyok", "bodyexc", "boot"
    bruns0,        \* bruns when the function was called
    fruns0,        \* fruns when the function was called
    inPlace,       \* what was in place on the host when the function was called
    snapExists,    \* the snapshot <pool>/ROOT/os@initial exists
    snapLog        \* how each `zfs snapshot` command run so far ended

runVars == <<scope, npc, bruns0, fruns0, inPlace, snapExists, snapLog>>

\* no function has been called yet
NothingInPlace == [lodev |-> [d \in LoopDevs |-> NoFile], luks |-> {},
                   pools |-> {}, mounted |-> {}]

\* the loop attachments, LUKS mappings, pools and mounts of the host
HostHolds == [lodev |-> lodev, luks |-> luksOpen, pools |-> pools,
              mounted |-> mounted]

VARIABLES
    prebuilt,      \* deploy_zfs_in_machine was given prebuilt_rpms_path
    ppc,           \* where deploy_zfs_in_machine is in its `with undoer:` block
    pruns          \* calls of deploy_zfs_in_machine so far

preVars == <<prebuilt, ppc, pruns>>

VARIABLES
    pollables,     \* Tee.run: the input files still polled
    unread,        \* chunks each input file will still deliver before its end
    copied,        \* chunks of each input file written to its output files
    terr,          \* Tee.err: the input file whose data failed first, 0 for None
    tpc,           \* where the Tee thread is
    joined         \* what Tee.join did

teeVars == <<pollables, unread, copied, terr, tpc, joined>>

VARIABLES
    downloadonly,  \* _run_with_retries: "--downloadonly" in cmd
    runs           \* exit code and output of each run of cmd in the current call

rwVars == <<downloadonly, runs>>

VARIABLES
    mpc,           \* where cmd.umount is
    tries0,        \* umount: the argument tries
    tries,         \* umount: the local tries
    sleep,         \* umount: the local sleep
    ismnt,         \* the mountpoint given to umount is mounted
    ucmds,         \* umount commands the current call has run
    slept,         \* the sleeps of the current call
    ucalls         \* calls of umount so far

umVars == <<mpc, tries0, tries, sleep, ismnt, ucmds, slept, ucalls>>

auxVars == <<preVars, teeVars, rwVars, umVars>>

extVars == <<retryVars, pmVars, runVars, auxVars>>

restVars == <<stageVars, vmVars, extVars>>

(***************************************************************************)
(* Sequence helpers                                                        *)
(***************************************************************************)
RemoveAt(s, i) == [k \in 1..(Len(s) - 1) |-> IF k < i THEN s[k] ELSE s[k + 1]]

Reverse(s) == [k \in 1..Len(s) |-> s[Len(s) - k + 1]]

\* list(enumerate(s)), indices counted from 1
Enumerate(s) == [k \in 1..Len(s) |-> <<k, s[k]>>]

EnumerateForward(s) == Enumerate(s)

\* reversed(list(enumerate(self.actions[:])))
EnumerateReversed(s) == Reverse(Enumerate(s))

Range(s) == {s[k] : k \in 1..Len(s)}

(***************************************************************************)
(* Undoer.Tracker                                                          *)
(***************************************************************************)
Typs == {"un_losetup", "luks_close", "export", "rmdir", "rmrf", "unmount"}

Entry(typ, o, id) == [typ |-> typ, o |-> o, id |-> id]

TrackerAppendNothing(u, typ, o) == UNCHANGED <<actions, nextId>>

\* Tracker.append: self.actions.append([me.typ, o])
TrackerAppend(u, typ, o) ==
    /\ actions' = [actions EXCEPT ![u] = Append(@, Entry(typ, o, nextId))]
    /\ nextId' = nextId + 1

RemoveIndexNone(a, typ, o) == 0

\* index Tracker.remove pops: the last entry of that typ and handle, 0 if none
RemoveIndex(a, typ, o) ==
    LET hits == {k \in 1..Len(a) : a[k].typ = typ /\ a[k].o = o}
    IN IF hits = {} THEN 0 ELSE CHOOSE k \in hits : \A m \in hits : m <= k

\* Tracker.remove
TrackerRemove(u, typ, o) ==
    LET k == RemoveIndex(actions[u], typ, o)
    IN /\ actions' = [actions EXCEPT ![u] = IF k = 0 THEN @ ELSE RemoveAt(@, k)]
       /\ UNCHANGED nextId

(***************************************************************************)
(* Undoer.undo                                                             *)
(***************************************************************************)
\* mountpoints below a mountpoint: it cannot be unmounted while they are held
Below(m) ==
    CASE m = "root" -> {"root/boot", "root/boot/efi", "root/proc", "root/sys"}
      [] m = "root/boot" -> {"root/boot/efi"}
      [] OTHER -> {}

\* results the undo action of an entry can have on the present host
Results(e) ==
    CASE e.typ = "unmount" ->
            IF e.o \notin mounted THEN {"ok"}
            ELSE IF Below(e.o) \cap mounted # {} THEN {"fail"}
            ELSE {"ok", "fail"}
      [] e.typ \in {"rmrf", "rmdir"} ->
            IF e.o \in dirs THEN {"ok", "fail"} ELSE {"fail"}
      [] e.typ = "export" ->
            IF e.o \in pools /\ Below("root") \cap mounted = {}
            THEN {"ok", "fail"} ELSE {"fail"}
      [] e.typ = "luks_close" ->
            IF e.o \in luksOpen /\ pools = {} THEN {"ok", "fail"} ELSE {"fail"}
      [] e.typ = "un_losetup" ->
            IF lodev[e.o] # NoFile THEN {"ok", "fail"} ELSE {"nodev", "fail"}

LosetupToleratesNothing(res) == FALSE

\* the un_losetup branch: a non-zero exit is ignored only for this output
LosetupTolerated(res) == res = "nodev"

RaisesNever(e, res) == FALSE

\* the undo action raises
Raises(e, res) ==
    /\ res # "ok"
    /\ ~(e.typ = "un_losetup" /\ LosetupTolerated(res))

\* effect of a successful undo action on the host
HostAfter(e, res) ==
    /\ mounted' = IF res = "ok" /\ e.typ = "unmount" THEN mounted \ {e.o}
                  ELSE IF res = "ok" /\ e.typ = "export"
                       THEN mounted \ {"root"}
                  ELSE mounted
    /\ dirs' = IF res = "ok" /\ e.typ \in {"rmrf", "rmdir"} THEN dirs \ {e.o}
               ELSE dirs
    /\ pools' = IF res = "ok" /\ e.typ = "export" THEN pools \ {e.o} ELSE pools
    /\ luksOpen' = IF res = "ok" /\ e.typ = "luks_close" THEN luksOpen \ {e.o}
                   ELSE luksOpen
    /\ lodev' = IF res = "ok" /\ e.typ = "un_losetup"
                THEN [lodev EXCEPT ![e.o] = NoFile] ELSE lodev
    /\ visible' = IF res = "ok" /\ e.typ = "un_losetup"
                  THEN [visible EXCEPT ![e.o] = {}] ELSE visible

\* undo() is entered: the loop iterates over a copy of the ledger
UndoCall(u, caller) ==
    /\ upc = "idle"
    /\ upc' = "run"
    /\ uwho' = u
    /\ ucaller' = caller
    /\ snap' = actions[u]
    /\ todo' = EnumerateReversed(actions[u])
    /\ calls' = <<>>
    /\ UNCHANGED <<done, redone, nfail>>

\* one iteration of the loop, up to the end of the typ chain
UndoAct ==
    /\ upc = "run"
    /\ todo # <<>>
    /\ LET e == Head(todo)[2]
       IN \E res \in Results(e) :
            /\ res = "fail" => nfail < MaxFail
            /\ HostAfter(e, res)
            /\ calls' = Append(calls, [e |-> e, res |-> res])
            /\ done' = IF Raises(e, res) THEN done ELSE done \cup {e.id}
            /\ redone' = (redone \/ e.id \in done)
            /\ nfail' = IF res = "fail" THEN nfail + 1 ELSE nfail
            /\ upc' = IF Raises(e, res) THEN "raised" ELSE "pop"
    /\ UNCHANGED <<uwho, ucaller, todo, snap, ledgerVars, withVars, ctxVars>>
    /\ UNCHANGED restVars

PopNothing(a, n) == a

\* list.pop(n)
Pop(a, n) == RemoveAt(a, n)

\* self.actions.pop(n), which ends the iteration
UndoPop ==
    /\ upc = "pop"
    /\ LET n == Head(todo)[1]
       IN IF n > Len(actions[uwho])
          THEN /\ upc' = "raised"
               /\ UNCHANGED <<actions, todo>>
          ELSE /\ actions' = [actions EXCEPT ![uwho] = Pop(@, n)]
               /\ todo' = Tail(todo)
               /\ upc' = "run"
    /\ UNCHANGED <<nextId, uwho, ucaller, snap, calls, done, redone, nfail>>
    /\ UNCHANGED <<withVars, hostVars, ctxVars>>
    /\ UNCHANGED restVars

\* the loop is exhausted: "Rewind complete."
UndoFinish ==
    /\ upc = "run"
    /\ todo = <<>>
    /\ upc' = "returned"
    /\ UNCHANGED <<uwho, ucaller, todo, snap, calls, done, redone, nfail>>
    /\ UNCHANGED <<ledgerVars, withVars, hostVars, ctxVars>>
    /\ UNCHANGED restVars

\* control is back in the caller of undo()
UndoLeave ==
    /\ upc' = "idle"
    /\ uwho' = "u"
    /\ ucaller' = "none"
    /\ todo' = <<>>
    /\ snap' = <<>>
    /\ calls' = <<>>
    /\ UNCHANGED <<done, redone, nfail>>

(***************************************************************************)
(* Undoer.__enter__ / Undoer.__exit__ and a direct client of one Undoer    *)
(***************************************************************************)
UndoerExitSuppresses == TRUE

\* __exit__ returns None: the exception of the body is not suppressed
UndoerExitReturn == FALSE

ClientEntries ==
    {<<"unmount", HandleA>>, <<"unmount", HandleB>>, <<"un_losetup", HandleC>>,
     <<"rmdir", "tmp">>}

ClientAppend ==
    /\ upc = "idle"
    /\ wpc \in {"out", "body", "left"}
    /\ nextId <= MaxAppends
    /\ \E c \in ClientEntries : TrackerAppend("u", c[1], c[2])
    /\ UNCHANGED <<undoVars, withVars, hostVars, ctxVars>>
    /\ UNCHANGED restVars

ClientRemove ==
    /\ upc = "idle"
    /\ wpc \in {"out", "body", "left"}
    /\ \E c \in ClientEntries :
         /\ RemoveIndex(actions["u"], c[1], c[2]) # 0
         /\ TrackerRemove("u", c[1], c[2])
    /\ UNCHANGED <<undoVars, withVars, hostVars, ctxVars>>
    /\ UNCHANGED restVars

\* `with undoer:` is entered
UndoerEnter ==
    /\ upc = "idle"
    /\ wpc \in {"out", "left"}
    /\ wpc' = "body"
    /\ bodyExc' = FALSE
    /\ exitCalls' = 0
    /\ propagated' = "none"
    /\ UNCHANGED <<ledgerVars, undoVars, hostVars, ctxVars>>
    /\ UNCHANGED restVars

\* the body ends, normally or by an exception, and __exit__ calls undo()
UndoerExit ==
    /\ wpc = "body"
    /\ \E exc \in BOOLEAN : bodyExc' = exc
    /\ wpc' = "exit"
    /\ exitCalls' = exitCalls + 1
    /\ UndoCall("u", "with")
    /\ UNCHANGED <<ledgerVars, propagated, hostVars, ctxVars>>
    /\ UNCHANGED restVars

\* undo() is over and the with statement is left
UndoerLeft ==
    /\ wpc = "exit"
    /\ upc \in {"returned", "raised"}
    /\ ucaller = "with"
    /\ wpc' = "left"
    /\ propagated' = IF upc = "raised" THEN "undo"
                     ELSE IF bodyExc /\ ~UndoerExitReturn THEN "body"
                     ELSE "none"
    /\ UndoLeave
    /\ UNCHANGED <<ledgerVars, bodyExc, exitCalls, hostVars, ctxVars>>
    /\ UNCHANGED restVars

\* the client calls undoer.undo() itself
DirectUndo ==
    /\ wpc \in {"out", "left"}
    /\ UndoCall("u", "direct")
    /\ UNCHANGED <<ledgerVars, withVars, hostVars, ctxVars>>
    /\ UNCHANGED restVars

DirectUndoOver ==
    /\ upc \in {"returned", "raised"}
    /\ ucaller = "direct"
    /\ UndoLeave
    /\ UNCHANGED <<ledgerVars, withVars, hostVars, ctxVars>>
    /\ UNCHANGED restVars

coreVars == <<ledgerVars, undoVars, withVars, hostVars, ctxVars>>
vars == <<coreVars, restVars>>

\* Undoer.__init__, and no undo() running
InitLedgers ==
    /\ actions = [u \in Undoers |-> <<>>]
    /\ nextId = 1
    /\ upc = "idle"
    /\ uwho = "u"
    /\ ucaller = "none"
    /\ todo = <<>>
    /\ snap = <<>>
    /\ calls = <<>>
    /\ done = {}
    /\ redone = FALSE
    /\ nfail = 0
    /\ wpc = "out"
    /\ bodyExc = FALSE
    /\ exitCalls = 0
    /\ propagated = "none"

\* no blockdev_context is active
InitBdIdle ==
    /\ bpc = "out"
    /\ bcreate = FALSE
    /\ curVol = NoFile
    /\ curBoot = NoFile
    /\ parts = NoParts
    /\ bexc = "none"
    /\ bres = "none"
    /\ bruns = 0
    /\ ranGdisk = FALSE
    /\ madeFile = FALSE
    /\ yields = <<>>

\* no filesystem_context is active
InitFsIdle ==
    /\ fpc = "out"
    /\ fcreate = FALSE
    /\ luksName = NoFile
    /\ fexc = "none"
    /\ ferr = "none"
    /\ fres = "none"
    /\ fruns = 0
    /\ created = {}
    /\ setups = <<>>
    /\ nextUuid = 1

\* nothing on the partitions
InitFsBlank ==
    /\ lukspw = FALSE
    /\ blk = [x \in FsParts |-> Blank]
    /\ poolDisk = FALSE
    /\ datasets = {}

\* install_fedora_on_zfs has not returned; the emulator has not exited
NoStatus == -1
NoRet == 99

\* install_fedora_on_zfs has not been started
InitStagesIdle ==
    /\ preflight = "ok"
    /\ break_before = "none"
    /\ short_circuit = "none"
    /\ short0 = "none"
    /\ lukspassword = <<>>
    /\ rootpassword = <<>>
    /\ spc = "idle"
    /\ stage = 1
    /\ ran = <<>>
    /\ returned = <<>>
    /\ sexc = "none"
    /\ brokeAt = "none"
    /\ status = NoStatus

\* no emulator, no BootDriver
InitVmQuiet ==
    /\ kvm = TRUE
    /\ factor = 1
    /\ withLuks = FALSE
    /\ bqpc = "idle"
    /\ attempts = 0
    /\ boots = 0
    /\ biiqRes = "none"
    /\ kerneltempdir = FALSE
    /\ qpc = "idle"
    /\ budget = 0
    /\ emu = "none"
    /\ retcode = NoRet
    /\ killed = FALSE
    /\ aliveAtKill = FALSE
    /\ pending = "none"
    /\ emitted = 0
    /\ dpc = "new"
    /\ derror = "none"
    /\ sawMarker = FALSE
    /\ luksState = "unseen"
    /\ loginState = "unseen"
    /\ nread = 0
    /\ nwritten = 0
    /\ lastline = {}
    /\ typed = <<>>
    /\ firstMatch = "none"
    /\ readAfter = 0
    /\ vres = "none"

InitVmIdle == interactive = FALSE /\ InitVmQuiet

\* no retry object is in use
InitRetryIdle ==
    /\ rN0 = 0
    /\ rN = 0
    /\ rpc = "idle"
    /\ rlog = <<>>
    /\ rcalls = 0

\* installer processes sharing one host
Procs == {1, 2}
\* values of --releasever
Releases == {"41", "42"}
\* lock files: <cachedir>/ifz-lockfile and <cachedir>/dnf/.../chroot-<releasever>-<arch>/cache/lock
LockFiles == {"ifz-lockfile"} \cup Releases

\* no package manager is in use
InitPmIdle ==
    /\ pmKind = [p \in Procs |-> "chroot"]
    /\ pmCache = [p \in Procs |-> FALSE]
    /\ pmRel = [p \in Procs |-> "41"]
    /\ pmInst = [p \in Procs |-> FALSE]
    /\ pmpc = [p \in Procs |-> "idle"]
    /\ pmExc = [p \in Procs |-> FALSE]
    /\ pmCmds = [p \in Procs |-> <<>>]
    /\ pmCalls = [p \in Procs |-> 0]
    /\ pmPrevOk = [p \in Procs |-> FALSE]
    /\ pmMount = [p \in Procs |-> FALSE]
    /\ lockOwner = [l \in LockFiles |-> 0]

\* no stage is running; the snapshot has not been taken
InitRunIdle ==
    /\ scope = "none"
    /\ npc = "idle"
    /\ bruns0 = 0
    /\ fruns0 = 0
    /\ inPlace = NothingInPlace
    /\ snapExists = FALSE
    /\ snapLog = <<>>

\* deploy_zfs_in_machine has not been called
InitPreIdle ==
    /\ prebuilt = FALSE
    /\ ppc = "idle"
    /\ pruns = 0

\* the input files of a Tee
Inputs == {1, 2}

\* no Tee has been started
InitTeeIdle ==
    /\ pollables = {}
    /\ unread = [f \in Inputs |-> 0]
    /\ copied = [f \in Inputs |-> 0]
    /\ terr = 0
    /\ tpc = "new"
    /\ joined = "none"

\* _run_with_retries has not been called
InitRwIdle ==
    /\ downloadonly = FALSE
    /\ runs = <<>>

\* cmd.umount has not been called
InitUmIdle ==
    /\ mpc = "idle"
    /\ tries0 = 0
    /\ tries = 0
    /\ sleep = 1
    /\ ismnt = FALSE
    /\ ucmds = 0
    /\ slept = <<>>
    /\ ucalls = 0

InitAuxIdle == InitPreIdle /\ InitTeeIdle /\ InitRwIdle /\ InitUmIdle

InitExtIdle == InitRetryIdle /\ InitPmIdle /\ InitRunIdle /\ InitAuxIdle

InitRestIdle == InitStagesIdle /\ InitVmIdle /\ InitExtIdle

InitUndoer ==
    /\ InitLedgers
    /\ InitBdIdle
    /\ InitFsIdle
    /\ InitFsBlank
    /\ cfgVol = "vol.img"
    /\ cfgBoot = NoFile
    /\ files = {}
    /\ ptable = [m \in Media |-> {}]
    /\ visible = [d \in Devs |-> {}]
    /\ lodev0 = [d \in LoopDevs |-> IF d = HandleC THEN "image" ELSE NoFile]
    /\ mounted = {HandleA, HandleB}
    /\ lodev = [d \in LoopDevs |-> IF d = HandleC THEN "image" ELSE NoFile]
    /\ pools = {"tank"}
    /\ luksOpen = {"luks-u1"}
    /\ dirs = {"tmp"}
    /\ InitRestIdle

NextUndoer ==
    \/ ClientAppend
    \/ ClientRemove
    \/ UndoerEnter
    \/ UndoerExit
    \/ UndoerLeft
    \/ DirectUndo
    \/ DirectUndoOver
    \/ UndoAct
    \/ UndoPop
    \/ UndoFinish

SpecUndoer == InitUndoer /\ [][NextUndoer]_vars

(***************************************************************************)
(* Host primitives used by blockdev_context                                *)
(***************************************************************************)
LoopNo(d) == CASE d = "loop0" -> 0 [] d = "loop1" -> 1 [] d = "loop2" -> 2

\* filetype(dev)
FileType(path) ==
    IF path \in Disks THEN "blockdev"
    ELSE IF path \in files THEN "file"
    ELSE "doesntexist"

AssociatedLodevNone(path) == NoFile

\* get_associated_lodev(path): losetup -j
AssociatedLodev(path) ==
    LET ds == {d \in LoopDevs : lodev[d] = path}
    IN IF ds = {} THEN NoFile
       ELSE CHOOSE d \in ds : \A x \in ds : LoopNo(d) <= LoopNo(x)

FreeLoops == {d \in LoopDevs : lodev[d] = NoFile}

\* losetup --find: the first unused loop device
FirstFreeLoop == CHOOSE d \in FreeLoops : \A x \in FreeLoops : LoopNo(d) <= LoopNo(x)

\* what a device is backed by
Backing(dev) == IF dev \in LoopDevs THEN lodev[dev] ELSE dev

\* the name of the node of partition k of a device, as a suffix of its path
Digit(k) == <<"1", "2", "3", "4">>[k]
NodeSfx(dev, k) ==
    IF dev \in LoopDevs THEN "p" \o Digit(k)
    ELSE IF dev = "sdb" THEN Digit(k)
    ELSE "-part" \o Digit(k)

\* os.path.exists(str(dev) + sfx)
PathExists(dev, sfx) == \E k \in visible[dev] : NodeSfx(dev, k) = sfx

\* str(dev).startswith("/dev/loop")
StartsWithDevLoop(dev) == dev \in LoopDevs

\* the partition tables the kernel has read once it has settled
Settled(dev) == IF Backing(dev) \in Media THEN ptable[Backing(dev)] ELSE {}

\* the kernel (udev) catches up with a partition table: the nodes appear
KernelSettle ==
    /\ \E dev \in Devs :
         /\ visible[dev] # Settled(dev)
         /\ visible' = [visible EXCEPT ![dev] = Settled(dev)]
    /\ UNCHANGED <<mounted, lodev, pools, luksOpen, dirs>>
    /\ UNCHANGED <<ledgerVars, undoVars, withVars, diskVars, bdVars, fsVars>>
    /\ UNCHANGED restVars

(***************************************************************************)
(* blockdev_context                                                        *)
(***************************************************************************)
\* get_rootpart: the names tried for the root partition
RootCandidates(rdev) ==
    IF StartsWithDevLoop(rdev) THEN <<"p4">> ELSE <<"-part4", "4">>

\* get_rootpart(rdev), Part(NoFile, "") for None
GetRootpart(rdev) ==
    LET c == RootCandidates(rdev)
        hits == {k \in 1..Len(c) : PathExists(rdev, c[k])}
    IN IF hits = {} THEN Part(NoFile, "")
       ELSE Part(rdev, c[CHOOSE k \in hits : \A m \in hits : k <= m])

EfiBootCandidatesSwapped(bdev) ==
    IF StartsWithDevLoop(bdev) THEN << <<"p3", "p2">> >>
    ELSE << <<"-part3", "-part2">>, <<"3", "2">> >>

\* get_efipart_bootpart: the (efipart, bootpart) names tried
EfiBootCandidates(bdev) ==
    IF StartsWithDevLoop(bdev) THEN << <<"p2", "p3">> >>
    ELSE << <<"-part2", "-part3">>, <<"2", "3">> >>

\* get_efipart_bootpart(bdev): <<efipart, bootpart>>, both Part(NoFile, "") for
\* (None, None)
GetEfipartBootpart(bdev) ==
    LET c == EfiBootCandidates(bdev)
        hits == {k \in 1..Len(c) :
                    PathExists(bdev, c[k][1]) /\ PathExists(bdev, c[k][2])}
    IN IF hits = {} THEN <<Part(NoFile, ""), Part(NoFile, "")>>
       ELSE LET k == CHOOSE k \in hits : \A m \in hits : k <= m
            IN <<Part(bdev, c[k][1]), Part(bdev, c[k][2])>>

CreatesAnyway(create) == FALSE

\* `if not create: raise`
RefusesToCreate(create) == ~create

\* bootdev if bootdev else voldev
BootHost == IF curBoot # NoFile THEN curBoot ELSE curVol

bdLocals == <<cfgVol, cfgBoot, bcreate, bruns, yields, lodev0>>

\* blockdev_context(...) is called: undoer = Undoer(); with undoer:
BdEnter ==
    /\ bpc = "out"
    /\ upc = "idle"
    /\ bruns < MaxRuns
    /\ \E create \in BOOLEAN : bcreate' = create
    /\ bruns' = bruns + 1
    /\ bpc' = "vol"
    /\ curVol' = cfgVol
    /\ curBoot' = cfgBoot
    /\ parts' = NoParts
    /\ bexc' = "none"
    /\ bres' = "none"
    /\ ranGdisk' = FALSE
    /\ madeFile' = FALSE
    /\ actions' = [actions EXCEPT !["bd"] = <<>>]
    /\ UNCHANGED <<nextId, cfgVol, cfgBoot, yields, lodev0>>
    /\ UNCHANGED <<undoVars, withVars, hostVars, diskVars, fsVars>>
    /\ UNCHANGED restVars

\* an exception is raised inside `with undoer:`
BdRaise ==
    /\ bpc' = "raise"
    /\ bexc' = "acq"

\* filetype / create_file / get_associated_lodev / losetup / append for one of
\* the two paths
BdAttach(path, next) ==
    LET ftype == FileType(path)
        makes == ftype = "doesntexist"
        assoc == AssociatedLodev(path)
    IN \/ /\ ftype = "blockdev"
          /\ bpc' = next
          /\ UNCHANGED <<curVol, curBoot, bexc, madeFile, ledgerVars,
                         hostVars, diskVars>>
       \/ /\ makes
          /\ RefusesToCreate(bcreate)
          /\ BdRaise
          /\ UNCHANGED <<curVol, curBoot, madeFile, ledgerVars, hostVars,
                         diskVars>>
       \/ /\ ftype # "blockdev"
          /\ makes => ~RefusesToCreate(bcreate)
          /\ files' = IF makes THEN files \cup {path} ELSE files
          /\ ptable' = IF makes THEN [ptable EXCEPT ![path] = {}] ELSE ptable
          /\ madeFile' = (madeFile \/ makes)
          /\ IF assoc # NoFile
             THEN /\ TrackerAppend("bd", "un_losetup", assoc)
                  /\ curVol' = IF path = curVol THEN assoc ELSE curVol
                  /\ curBoot' = IF path = curVol THEN curBoot ELSE assoc
                  /\ bpc' = next
                  /\ UNCHANGED <<bexc, hostVars>>
             ELSE IF FreeLoops = {}
             THEN /\ BdRaise
                  /\ UNCHANGED <<curVol, curBoot, ledgerVars, hostVars>>
             ELSE LET dev == FirstFreeLoop
                  IN /\ lodev' = [lodev EXCEPT ![dev] = path]
                     /\ \E v \in {{}, ptable'[path]} :
                          visible' = [visible EXCEPT ![dev] = v]
                     /\ TrackerAppend("bd", "un_losetup", dev)
                     /\ curVol' = IF path = curVol THEN dev ELSE curVol
                     /\ curBoot' = IF path = curVol THEN curBoot ELSE dev
                     /\ bpc' = next
                     /\ UNCHANGED <<bexc, mounted, pools, luksOpen, dirs>>

\* lines 556-576: the volume
BdVol ==
    /\ bpc = "vol"
    /\ BdAttach(curVol, "boot")
    /\ UNCHANGED <<parts, bres, ranGdisk, bdLocals, undoVars, withVars, fsVars>>
    /\ UNCHANGED restVars

\* lines 578-597: the separate boot device, if any
BdBoot ==
    /\ bpc = "boot"
    /\ IF curBoot = NoFile
       THEN /\ bpc' = "probe1.1"
            /\ UNCHANGED <<curVol, curBoot, bexc, madeFile, ledgerVars,
                           hostVars, diskVars>>
       ELSE BdAttach(curBoot, "probe1.1")
    /\ UNCHANGED <<parts, bres, ranGdisk, bdLocals, undoVars, withVars, fsVars>>
    /\ UNCHANGED restVars

\* partition_boot(bootdev, bootsize, rootvol): the table gdisk writes
GdiskTable(rootvol) == IF rootvol THEN {1, 2, 3, 4} ELSE {1, 2, 3}

\* lines 599-612: one pass of the first probe loop, i = 1 then i = 0
BdProbeFirst ==
    /\ bpc \in {"probe1.1", "probe1.0"}
    /\ LET found == GetEfipartBootpart(BootHost)
           missing == found[1].dev = NoFile
       IN \/ /\ ~missing
             /\ parts' = [parts EXCEPT !.efi = found[1], !.boot = found[2]]
             /\ bpc' = "probe2.1"
             /\ UNCHANGED <<bexc, ranGdisk, ptable, visible, nfail>>
          \/ /\ missing
             /\ bpc = "probe1.1"
             /\ bpc' = "probe1.0"
             /\ UNCHANGED <<parts, bexc, ranGdisk, ptable, visible, nfail>>
          \/ /\ missing
             /\ bpc = "probe1.0"
             /\ RefusesToCreate(bcreate)
             /\ BdRaise
             /\ UNCHANGED <<parts, ranGdisk, ptable, visible, nfail>>
          \/ /\ missing
             /\ bpc = "probe1.0"
             /\ ~RefusesToCreate(bcreate)
             /\ ranGdisk' = TRUE
             /\ \/ /\ nfail < MaxFail
                   /\ nfail' = nfail + 1
                   /\ BdRaise
                   /\ UNCHANGED <<parts, ptable, visible>>
                \/ /\ ptable' = [ptable EXCEPT
                                   ![Backing(BootHost)] = GdiskTable(curBoot = NoFile)]
                   /\ \E v \in {visible[BootHost], GdiskTable(curBoot = NoFile)} :
                        visible' = [visible EXCEPT ![BootHost] = v]
                   /\ parts' = [parts EXCEPT !.efi = found[1], !.boot = found[2]]
                   /\ bpc' = "probe2.1"
                   /\ UNCHANGED <<bexc, nfail>>
    /\ UNCHANGED <<curVol, curBoot, bres, madeFile, bdLocals, files>>
    /\ UNCHANGED <<mounted, lodev, pools, luksOpen, dirs>>
    /\ UNCHANGED <<upc, uwho, ucaller, todo, snap, calls, done, redone>>
    /\ UNCHANGED <<ledgerVars, withVars, fsVars>>
    /\ UNCHANGED restVars

\* lines 614-624: one pass of the second probe loop
BdProbeSecond ==
    /\ bpc \in {"probe2.1", "probe2.0"}
    /\ LET found == GetEfipartBootpart(BootHost)
           missing == found[1].dev = NoFile
       IN \/ /\ ~missing
             /\ parts' = [parts EXCEPT !.efi = found[1], !.boot = found[2]]
             /\ bpc' = "root"
             /\ UNCHANGED bexc
          \/ /\ missing
             /\ bpc = "probe2.1"
             /\ bpc' = "probe2.0"
             /\ UNCHANGED <<parts, bexc>>
          \/ /\ missing
             /\ bpc = "probe2.0"
             /\ BdRaise
             /\ UNCHANGED parts
    /\ UNCHANGED <<curVol, curBoot, bres, ranGdisk, madeFile, bdLocals>>
    /\ UNCHANGED <<ledgerVars, undoVars, withVars, hostVars, diskVars, fsVars>>
    /\ UNCHANGED restVars

\* lines 626-638: rootpart, the asserts, and the yield
BdYield ==
    /\ bpc = "root"
    /\ LET rootpart == IF curBoot # NoFile THEN Part(curVol, "")
                       ELSE GetRootpart(curVol)
       IN IF rootpart.dev = NoFile
          THEN /\ BdRaise
               /\ UNCHANGED <<parts, yields>>
          ELSE /\ parts' = [parts EXCEPT !.root = rootpart]
               /\ yields' = Append(yields, [create |-> bcreate, parts |-> parts',
                                            ranGdisk |-> ranGdisk])
               /\ bpc' = "yielded"
               /\ UNCHANGED bexc
    /\ UNCHANGED <<cfgVol, cfgBoot, bcreate, curVol, curBoot, bres, bruns,
                   ranGdisk, madeFile, lodev0>>
    /\ UNCHANGED <<ledgerVars, undoVars, withVars, hostVars, diskVars, fsVars>>
    /\ UNCHANGED restVars

\* the body of the caller's with statement ends, normally or by an exception,
\* and Undoer.__exit__ runs
BdBodyEnds ==
    /\ bpc = "yielded"
    /\ \E exc \in {"none", "body"} : bexc' = exc
    /\ bpc' = "exit"
    /\ UndoCall("bd", "bd")
    /\ UNCHANGED <<curVol, curBoot, parts, bres, ranGdisk, madeFile, bdLocals>>
    /\ UNCHANGED <<ledgerVars, withVars, hostVars, diskVars, fsVars>>
    /\ UNCHANGED restVars

\* an exception raised before the yield reaches Undoer.__exit__
BdUnwind ==
    /\ bpc = "raise"
    /\ bpc' = "exit"
    /\ UndoCall("bd", "bd")
    /\ UNCHANGED <<curVol, curBoot, parts, bexc, bres, ranGdisk, madeFile,
                   bdLocals>>
    /\ UNCHANGED <<ledgerVars, withVars, hostVars, diskVars, fsVars>>
    /\ UNCHANGED restVars

\* undo() is over: blockdev_context returns or the exception propagates
BdLeft ==
    /\ bpc = "exit"
    /\ upc \in {"returned", "raised"}
    /\ ucaller = "bd"
    /\ bpc' = "out"
    /\ bres' = IF upc = "raised" THEN "undo"
               ELSE IF bexc = "none" /\ ~UndoerExitReturn THEN "returned"
               ELSE bexc
    /\ UndoLeave
    /\ UNCHANGED <<curVol, curBoot, parts, bexc, ranGdisk, madeFile, bdLocals>>
    /\ UNCHANGED <<ledgerVars, withVars, hostVars, diskVars, fsVars>>
    /\ UNCHANGED restVars

TableChoices == {{}, {1, 2, 3}, {1, 2, 3, 4}}

InitBlockdev ==
    /\ InitLedgers
    /\ InitBdIdle
    /\ InitFsIdle
    /\ InitFsBlank
    /\ cfgVol \in {"vol.img", "sdb", "wwn-x"}
    /\ cfgBoot \in {NoFile, "boot.img"}
    /\ files \in SUBSET ({cfgVol, cfgBoot} \cap BackingFiles)
    /\ ptable \in [Media -> TableChoices]
    /\ \A m \in Media : (m \notin files /\ m # cfgVol) => ptable[m] = {}
    /\ lodev \in [LoopDevs -> {NoFile, "other", "vol.img"}]
    /\ lodev["loop0"] \in {NoFile, "other"}
    /\ lodev["loop1"] \in {NoFile, "vol.img"}
    /\ lodev["loop2"] = NoFile
    /\ lodev["loop1"] = "vol.img" => "vol.img" \in files
    /\ lodev0 = lodev
    /\ visible = [d \in Devs |-> Settled(d)]
    /\ mounted = {}
    /\ pools = {}
    /\ luksOpen = {}
    /\ dirs = {}
    /\ InitRestIdle

NextBlockdev ==
    \/ BdEnter
    \/ BdVol
    \/ BdBoot
    \/ BdProbeFirst
    \/ BdProbeSecond
    \/ BdYield
    \/ BdBodyEnds
    \/ BdUnwind
    \/ BdLeft
    \/ KernelSettle
    \/ UndoAct
    \/ UndoPop
    \/ UndoFinish

SpecBlockdev == InitBlockdev /\ [][NextBlockdev]_vars

(***************************************************************************)
(* setup_boot_filesystems and filesystem_context                           *)
(***************************************************************************)
\* the UUID the k-th formatting command gives to what it formats
UuidName(k) == <<"u1", "u2", "u3", "u4">>[k]

BlkidNeverHasType(x, t) == FALSE

\* 'TYPE="<t>"' in the output of blkid for a partition
BlkidHasType(x, t) == blk[x].type = t

\* mountpoints under rootmountpoint: p("boot"), p("boot/efi"), p("proc"), p("sys")
RootMountpoint == "root"
BindMounts == <<"root/proc", "root/sys">>

\* filesystem_context(...) is called: undoer = Undoer()
FsEnter ==
    /\ fpc = "out"
    /\ upc = "idle"
    /\ fruns < MaxRuns
    /\ \E create \in BOOLEAN : fcreate' = create
    /\ fruns' = fruns + 1
    /\ fpc' = "bootfs"
    /\ luksName' = NoFile
    /\ fexc' = "none"
    /\ ferr' = "none"
    /\ fres' = "none"
    /\ created' = {}
    /\ actions' = [actions EXCEPT !["fs"] = <<>>]
    /\ UNCHANGED <<nextId, lukspw, fsDisk, setups>>
    /\ UNCHANGED <<undoVars, withVars, hostVars, diskVars, bdVars>>
    /\ UNCHANGED restVars

\* an exception leaves the step at fpc
FsRaise(err) ==
    /\ fexc' = "acq"
    /\ ferr' = err
    /\ fpc' = fpc

FsNext(pc) ==
    /\ fpc' = pc
    /\ UNCHANGED <<fexc, ferr>>

fsFrame == <<lukspw, fcreate, fres, fruns>>
fsQuiet == <<undoVars, withVars, diskVars, bdVars, lodev, dirs, visible>>

\* setup_boot_filesystems(bootpart, efipart, poolname, create)
FsSetupBootFilesystems ==
    /\ fpc = "bootfs"
    /\ fexc = "none"
    /\ LET needBoot == ~BlkidHasType("boot", "ext4")
           needEfi == ~BlkidHasType("efi", "vfat")
           b1 == IF needBoot
                 THEN [blk EXCEPT !["boot"] = [type |-> "ext4",
                                               uuid |-> UuidName(nextUuid)]]
                 ELSE blk
           n1 == IF needBoot THEN nextUuid + 1 ELSE nextUuid
           b2 == IF needEfi
                 THEN [b1 EXCEPT !["efi"] = [type |-> "vfat", uuid |-> UuidName(n1)]]
                 ELSE b1
           n2 == IF needEfi THEN n1 + 1 ELSE n1
           mk1 == IF needBoot THEN {"mkfs.ext4"} ELSE {}
           mk2 == IF needEfi THEN {"mkfs.vfat"} ELSE {}
       IN \/ /\ needBoot
             /\ RefusesToCreate(fcreate)
             /\ FsRaise("boot file system")
             /\ UNCHANGED <<blk, nextUuid, created, setups>>
          \/ /\ needBoot => ~RefusesToCreate(fcreate)
             /\ needEfi
             /\ RefusesToCreate(fcreate)
             /\ blk' = b1
             /\ nextUuid' = n1
             /\ created' = created \cup mk1
             /\ FsRaise("EFI file system")
             /\ UNCHANGED setups
          \/ /\ (needBoot \/ needEfi) => ~RefusesToCreate(fcreate)
             /\ blk' = b2
             /\ nextUuid' = n2
             /\ created' = created \cup mk1 \cup mk2
             /\ setups' = Append(setups, [create |-> fcreate,
                                          had |-> /\ blk["boot"].type = "ext4"
                                                  /\ blk["efi"].type = "vfat",
                                          mkfs |-> mk1 \cup mk2,
                                          boot |-> b2["boot"].uuid,
                                          efi |-> b2["efi"].uuid])
             /\ FsNext("luks")
    /\ UNCHANGED <<poolDisk, datasets, luksName, fsFrame, fsQuiet>>
    /\ UNCHANGED <<ledgerVars, mounted, pools, luksOpen>>
    /\ UNCHANGED restVars

\* lines 730-779: the LUKS volume
FsLuks ==
    /\ fpc = "luks"
    /\ fexc = "none"
    /\ IF ~lukspw
       THEN /\ FsNext("pool")
            /\ UNCHANGED <<blk, nextUuid, poolDisk, datasets, created, luksName,
                           luksOpen, ledgerVars, nfail>>
       ELSE LET needsdoing == blk["root"].uuid = NoUuid
                b1 == IF needsdoing
                      THEN [blk EXCEPT !["root"] = [type |-> "crypto_LUKS",
                                                    uuid |-> UuidName(nextUuid)]]
                      ELSE blk
                name == "luks-" \o b1["root"].uuid
            IN \/ /\ needsdoing
                  /\ RefusesToCreate(fcreate)
                  /\ FsRaise("LUKS volume")
                  /\ UNCHANGED <<blk, nextUuid, poolDisk, datasets, created,
                                 luksName, luksOpen, ledgerVars, nfail>>
               \/ /\ needsdoing => ~RefusesToCreate(fcreate)
                  /\ blk' = b1
                  /\ nextUuid' = IF needsdoing THEN nextUuid + 1 ELSE nextUuid
                  /\ created' = IF needsdoing THEN created \cup {"luksFormat"}
                                ELSE created
                  /\ poolDisk' = (poolDisk /\ ~needsdoing)
                  /\ datasets' = IF needsdoing THEN {} ELSE datasets
                  /\ luksName' = name
                  /\ \/ /\ name \notin luksOpen
                        /\ nfail < MaxFail
                        /\ nfail' = nfail + 1
                        /\ FsRaise("CalledProcessError")
                        /\ UNCHANGED <<luksOpen, ledgerVars>>
                     \/ /\ luksOpen' = luksOpen \cup {name}
                        /\ TrackerAppend("fs", "luks_close", name)
                        /\ FsNext("pool")
                        /\ UNCHANGED nfail
    /\ UNCHANGED <<setups, fsFrame, withVars, diskVars, bdVars, lodev, dirs,
                   visible, mounted, pools>>
    /\ UNCHANGED <<upc, uwho, ucaller, todo, snap, calls, done, redone>>
    /\ UNCHANGED restVars

\* what importing the pool mounts: the dataset with mountpoint=/
ImportMounts == IF "ROOT/os" \in datasets THEN {RootMountpoint} ELSE {}

PoolNeverActive == FALSE

\* `poolname not in list_pools()` is false
PoolActive == PoolName \in pools

\* lines 781-815: the pool
FsPool ==
    /\ fpc = "pool"
    /\ fexc = "none"
    /\ IF PoolActive
       THEN /\ TrackerAppend("fs", "export", PoolName)
            /\ FsNext("ROOT")
            /\ UNCHANGED <<poolDisk, datasets, created, pools, mounted, nfail>>
       ELSE \/ /\ poolDisk
               /\ pools' = pools \cup {PoolName}
               /\ mounted' = mounted \cup ImportMounts
               /\ TrackerAppend("fs", "export", PoolName)
               /\ FsNext("ROOT")
               /\ UNCHANGED <<poolDisk, datasets, created, nfail>>
            \/ /\ poolDisk => nfail < MaxFail
               /\ nfail' = IF poolDisk THEN nfail + 1 ELSE nfail
               /\ \/ /\ RefusesToCreate(fcreate)
                     /\ FsRaise("ZFS pool")
                     /\ UNCHANGED <<poolDisk, datasets, created, pools, mounted,
                                    ledgerVars>>
                  \/ /\ ~RefusesToCreate(fcreate)
                     /\ created' = created \cup {"zpool create"}
                     /\ IF poolDisk
                        THEN /\ FsRaise("CalledProcessError")
                             /\ UNCHANGED <<poolDisk, datasets, pools, mounted,
                                            ledgerVars>>
                        ELSE /\ poolDisk' = TRUE
                             /\ datasets' = {}
                             /\ pools' = pools \cup {PoolName}
                             /\ TrackerAppend("fs", "export", PoolName)
                             /\ FsNext("ROOT")
                             /\ UNCHANGED mounted
    /\ UNCHANGED <<blk, nextUuid, luksName, setups, fsFrame, withVars, diskVars,
                   bdVars, lodev, dirs, visible, luksOpen>>
    /\ UNCHANGED <<upc, uwho, ucaller, todo, snap, calls, done, redone>>
    /\ UNCHANGED restVars

\* lines 817-827: the dataset ROOT
FsRootDataset ==
    /\ fpc = "ROOT"
    /\ fexc = "none"
    /\ IF "ROOT" \in datasets
       THEN /\ FsNext("os")
            /\ UNCHANGED <<datasets, created>>
       ELSE \/ /\ RefusesToCreate(fcreate)
               /\ FsRaise("ROOT")
               /\ UNCHANGED <<datasets, created>>
            \/ /\ ~RefusesToCreate(fcreate)
               /\ datasets' = datasets \cup {"ROOT"}
               /\ created' = created \cup {"zfs create ROOT"}
               /\ FsNext("os")
    /\ UNCHANGED <<blk, nextUuid, poolDisk, luksName, setups, fsFrame, fsQuiet>>
    /\ UNCHANGED <<ledgerVars, mounted, pools, luksOpen>>
    /\ UNCHANGED restVars

\* lines 829-842: the dataset ROOT/os, mounted at rootmountpoint
FsOsDataset ==
    /\ fpc = "os"
    /\ fexc = "none"
    /\ LET exists == "ROOT/os" \in datasets
           held == RootMountpoint \in mounted
       IN \/ /\ exists
             /\ mounted' = mounted \cup {RootMountpoint}
             /\ TrackerAppend("fs", "unmount", RootMountpoint)
             /\ FsNext("swapvol")
             /\ UNCHANGED <<datasets, created, nfail>>
          \/ /\ exists => (~held /\ nfail < MaxFail)
             /\ nfail' = IF exists THEN nfail + 1 ELSE nfail
             /\ \/ /\ RefusesToCreate(fcreate)
                   /\ FsRaise("ROOT/os")
                   /\ UNCHANGED <<datasets, created, mounted, ledgerVars>>
                \/ /\ ~RefusesToCreate(fcreate)
                   /\ created' = created \cup {"zfs create ROOT/os"}
                   /\ IF exists
                      THEN /\ FsRaise("CalledProcessError")
                           /\ UNCHANGED <<datasets, mounted, ledgerVars>>
                      ELSE /\ datasets' = datasets \cup {"ROOT/os"}
                           /\ mounted' = mounted \cup {RootMountpoint}
                           /\ TrackerAppend("fs", "unmount", RootMountpoint)
                           /\ FsNext("swapvol")
    /\ UNCHANGED <<blk, nextUuid, poolDisk, luksName, setups, fsFrame, withVars,
                   diskVars, bdVars, lodev, dirs, visible, pools, luksOpen>>
    /\ UNCHANGED <<upc, uwho, ucaller, todo, snap, calls, done, redone>>
    /\ UNCHANGED restVars

\* lines 844-858: the swap zvol
FsSwapZvol ==
    /\ fpc = "swapvol"
    /\ fexc = "none"
    /\ IF "swap" \in datasets
       THEN /\ FsNext("zvolwait")
            /\ UNCHANGED <<datasets, created, blk>>
       ELSE \/ /\ RefusesToCreate(fcreate)
               /\ FsRaise("swap")
               /\ UNCHANGED <<datasets, created, blk>>
            \/ /\ ~RefusesToCreate(fcreate)
               /\ datasets' = datasets \cup {"swap"}
               /\ blk' = [blk EXCEPT !["swap"] = Blank]
               /\ created' = created \cup {"zfs create swap"}
               /\ FsNext("zvolwait")
    /\ UNCHANGED <<nextUuid, poolDisk, luksName, setups, fsFrame, fsQuiet>>
    /\ UNCHANGED <<ledgerVars, mounted, pools, luksOpen>>
    /\ UNCHANGED restVars

\* lines 859-869: wait for the device node of the zvol
FsZvolWait ==
    /\ fpc = "zvolwait"
    /\ fexc = "none"
    /\ \/ /\ FsNext("swapsig")
          /\ UNCHANGED nfail
       \/ /\ nfail < MaxFail
          /\ nfail' = nfail + 1
          /\ FsRaise("ZFSMalfunction")
    /\ UNCHANGED <<fsDisk, created, luksName, setups, fsFrame, withVars, diskVars,
                   bdVars, hostVars, ledgerVars>>
    /\ UNCHANGED <<upc, uwho, ucaller, todo, snap, calls, done, redone>>
    /\ UNCHANGED restVars

\* lines 871-881: the swap signature
FsSwapSig ==
    /\ fpc = "swapsig"
    /\ fexc = "none"
    /\ IF BlkidHasType("swap", "swap")
       THEN /\ FsNext("mountboot")
            /\ UNCHANGED <<created, blk>>
       ELSE \/ /\ RefusesToCreate(fcreate)
               /\ FsRaise("swap volume")
               /\ UNCHANGED <<created, blk>>
            \/ /\ ~RefusesToCreate(fcreate)
               /\ blk' = [blk EXCEPT !["swap"] = [type |-> "swap", uuid |-> "s1"]]
               /\ created' = created \cup {"mkswap"}
               /\ FsNext("mountboot")
    /\ UNCHANGED <<nextUuid, poolDisk, datasets, luksName, setups, fsFrame,
                   fsQuiet>>
    /\ UNCHANGED <<ledgerVars, mounted, pools, luksOpen>>
    /\ UNCHANGED restVars

\* `if not os.path.ismount(target): mount(...)`, then to_unmount.append(target)
FsMount(target, next) ==
    \/ /\ mounted' = mounted \cup {target}
       /\ TrackerAppend("fs", "unmount", target)
       /\ FsNext(next)
       /\ UNCHANGED nfail
    \/ /\ target \notin mounted
       /\ nfail < MaxFail
       /\ nfail' = nfail + 1
       /\ FsRaise("CalledProcessError")
       /\ UNCHANGED <<mounted, ledgerVars>>

\* lines 889-897: /boot
FsMountBoot ==
    /\ fpc = "mountboot"
    /\ fexc = "none"
    /\ FsMount("root/boot", "mountefi")
    /\ UNCHANGED <<fsDisk, created, luksName, setups, fsFrame, withVars, diskVars,
                   bdVars, lodev, dirs, visible, pools, luksOpen>>
    /\ UNCHANGED <<upc, uwho, ucaller, todo, snap, calls, done, redone>>
    /\ UNCHANGED restVars

\* lines 899-905: /boot/efi
FsMountEfi ==
    /\ fpc = "mountefi"
    /\ fexc = "none"
    /\ FsMount("root/boot/efi", "binds")
    /\ UNCHANGED <<fsDisk, created, luksName, setups, fsFrame, withVars, diskVars,
                   bdVars, lodev, dirs, visible, pools, luksOpen>>
    /\ UNCHANGED <<upc, uwho, ucaller, todo, snap, calls, done, redone>>
    /\ UNCHANGED restVars

\* lines 907-937: the bind mounts of /proc and /sys, the directories, the yield
FsBindMountsAndYield ==
    /\ fpc = "binds"
    /\ fexc = "none"
    /\ mounted' = mounted \cup Range(BindMounts)
    /\ actions' = [actions EXCEPT !["fs"] =
                     @ \o <<Entry("unmount", BindMounts[1], nextId),
                            Entry("unmount", BindMounts[2], nextId + 1)>>]
    /\ nextId' = nextId + 2
    /\ FsNext("yielded")
    /\ UNCHANGED <<fsDisk, created, luksName, setups, fsFrame, fsQuiet>>
    /\ UNCHANGED <<pools, luksOpen>>
    /\ UNCHANGED restVars

\* the body of the caller's with statement ends: `finally: undoer.undo()`
FsBodyEnds ==
    /\ fpc = "yielded"
    /\ \E exc \in {"none", "body"} : fexc' = exc
    /\ fpc' = "exit"
    /\ UndoCall("fs", "fs")
    /\ UNCHANGED <<lukspw, fsDisk, fcreate, luksName, ferr, fres, fruns, created,
                   setups>>
    /\ UNCHANGED <<ledgerVars, withVars, hostVars, diskVars, bdVars>>
    /\ UNCHANGED restVars

\* an exception raised before the yield leaves filesystem_context: nothing
\* encloses lines 724-926
FsPropagate ==
    /\ fexc = "acq"
    /\ fpc \notin {"out", "exit"}
    /\ fpc' = "out"
    /\ fres' = "acq"
    /\ UNCHANGED <<lukspw, fsDisk, fcreate, luksName, fexc, ferr, fruns, created,
                   setups>>
    /\ UNCHANGED <<ledgerVars, undoVars, withVars, hostVars, diskVars, bdVars>>
    /\ UNCHANGED restVars

\* undo() is over: filesystem_context returns or the exception propagates
FsLeft ==
    /\ fpc = "exit"
    /\ upc \in {"returned", "raised"}
    /\ ucaller = "fs"
    /\ fpc' = "out"
    /\ fres' = IF upc = "raised" THEN "undo"
               ELSE IF fexc = "none" THEN "returned"
               ELSE "body"
    /\ UndoLeave
    /\ UNCHANGED <<lukspw, fsDisk, fcreate, luksName, fexc, ferr, fruns, created,
                   setups>>
    /\ UNCHANGED <<ledgerVars, withVars, hostVars, diskVars, bdVars>>
    /\ UNCHANGED restVars

\* how far an earlier creating run got: 1 boot fs, 2 EFI fs, 3 LUKS, 4 pool,
\* 5 ROOT, 6 ROOT/os, 7 swap zvol, 8 swap signature
Levels == 0..8

InitFs ==
    /\ InitLedgers
    /\ InitBdIdle
    /\ InitFsIdle
    /\ lukspw \in BOOLEAN
    /\ \E level \in Levels :
         /\ blk = [x \in FsParts |->
                     CASE x = "boot" /\ level >= 1 -> [type |-> "ext4", uuid |-> "b0"]
                       [] x = "efi" /\ level >= 2 -> [type |-> "vfat", uuid |-> "e0"]
                       [] x = "root" /\ level >= 3 /\ lukspw ->
                             [type |-> "crypto_LUKS", uuid |-> "r0"]
                       [] x = "swap" /\ level >= 8 -> [type |-> "swap", uuid |-> "s0"]
                       [] OTHER -> Blank]
         /\ poolDisk = (level >= 4)
         /\ datasets = {d \in {"ROOT", "ROOT/os", "swap"} :
                          \/ d = "ROOT" /\ level >= 5
                          \/ d = "ROOT/os" /\ level >= 6
                          \/ d = "swap" /\ level >= 7}
    /\ cfgVol = "vol.img"
    /\ cfgBoot = NoFile
    /\ files = {"vol.img"}
    /\ ptable = [m \in Media |-> IF m = "vol.img" THEN {1, 2, 3, 4} ELSE {}]
    /\ lodev = [d \in LoopDevs |-> NoFile]
    /\ lodev0 = lodev
    /\ visible = [d \in Devs |-> {}]
    /\ mounted = {}
    /\ pools = {}
    /\ luksOpen = {}
    /\ dirs = {}
    /\ InitRestIdle

NextFs ==
    \/ FsEnter
    \/ FsSetupBootFilesystems
    \/ FsLuks
    \/ FsPool
    \/ FsRootDataset
    \/ FsOsDataset
    \/ FsSwapZvol
    \/ FsZvolWait
    \/ FsSwapSig
    \/ FsMountBoot
    \/ FsMountEfi
    \/ FsBindMountsAndYield
    \/ FsBodyEnds
    \/ FsPropagate
    \/ FsLeft
    \/ UndoAct
    \/ UndoPop
    \/ UndoFinish

SpecFs == InitFs /\ [][NextFs]_vars

(***************************************************************************)
(* install_fedora_on_zfs and the stage loop of install_fedora              *)
(***************************************************************************)
\* the list the for statement of install_fedora iterates over
StageListSwapped ==
    <<"beginning", "reload_chroot", "deploy_zfs", "bootloader_install",
      "boot_to_test_non_hostonly", "boot_to_test_hostonly">>

StageList ==
    <<"beginning", "deploy_zfs", "reload_chroot", "bootloader_install",
      "boot_to_test_non_hostonly", "boot_to_test_hostonly">>

\* choices of --break-before and --short-circuit: the keys of break_stages
BreakStages == Range(StageList)

\* ordinals of the characters passwords are made of: a control character
\* and the space
Ords == {31, 32}
Passwords == UNION {[1..n -> Ords] : n \in 0..MaxPwLen}

ASCII_SPACE == 32

IsTypeableAnything(string) == TRUE

\* BootDriver.is_typeable
IsTypeable(string) == \A k \in 1..Len(string) : ~(string[k] < ASCII_SPACE)

EX_USAGE == 64

ExitStatusBreakIsSuccess(exc) ==
    CASE exc \in {"none", "BreakingBefore"} -> 0
      [] exc = "ImpossiblePassphrase" -> EX_USAGE
      [] exc \in {"ZFSMalfunction", "ZFSBuildFailure"} -> 9
      [] OTHER -> 1

\* the except clauses of install_fedora_on_zfs; an exception none of them
\* catches ends the interpreter with status 1
ExitStatus(exc) ==
    CASE exc = "none" -> 0
      [] exc = "ImpossiblePassphrase" -> EX_USAGE
      [] exc \in {"ZFSMalfunction", "ZFSBuildFailure"} -> 9
      [] exc = "BreakingBefore" -> 120
      [] OTHER -> 1

stageArgs == <<preflight, break_before, short0, lukspassword, rootpassword>>

\* install_fedora_on_zfs up to the call of install_fedora: the tools are
\* tested (QEMU only without --break-before), --vol-size is parsed
Preflight ==
    /\ spc = "idle"
    /\ IF preflight \in {"notool", "badvolsize"}
          \/ (preflight = "noqemu" /\ break_before = "none")
       THEN /\ status' = IF preflight = "badvolsize" THEN EX_USAGE ELSE 5
            /\ spc' = "exited"
       ELSE /\ spc' = "validate"
            /\ UNCHANGED status
    /\ UNCHANGED <<stageArgs, short_circuit, stage, ran, returned, sexc, brokeAt>>
    /\ UNCHANGED <<coreVars, vmVars, extVars>>

\* install_fedora, lines 1068-1076: the passwords must be typeable
ValidatePasswords ==
    /\ spc = "validate"
    /\ IF \/ lukspassword # <<>> /\ ~IsTypeable(lukspassword)
          \/ rootpassword # <<>> /\ ~IsTypeable(rootpassword)
       THEN /\ sexc' = "ImpossiblePassphrase"
            /\ spc' = "raised"
       ELSE /\ spc' = "loop"
            /\ UNCHANGED sexc
    /\ UNCHANGED <<stageArgs, short_circuit, stage, ran, returned, brokeAt, status>>
    /\ UNCHANGED <<coreVars, vmVars, extVars>>

\* `if break_before == stage`
BreaksAt(st) == break_before = st

RunsStageAlways(st) == TRUE

\* `if short_circuit in (stage, None)`
RunsStage(st) == short_circuit \in {st, "none"}

\* one iteration of the for statement up to the call of the stage
StageCheck ==
    /\ spc = "loop"
    /\ stage <= Len(StageList)
    /\ LET st == StageList[stage]
       IN IF BreaksAt(st)
          THEN /\ sexc' = "BreakingBefore"
               /\ brokeAt' = st
               /\ spc' = "raised"
               /\ UNCHANGED <<stage, ran>>
          ELSE IF RunsStage(st)
          THEN /\ ran' = Append(ran, st)
               /\ spc' = "body"
               /\ UNCHANGED <<stage, sexc, brokeAt>>
          ELSE /\ stage' = stage + 1
               /\ UNCHANGED <<spc, ran, sexc, brokeAt>>
    /\ UNCHANGED <<stageArgs, short_circuit, returned, status>>
    /\ UNCHANGED <<coreVars, vmVars, extVars>>

\* locals()[stage]() returns: short_circuit = None
StageReturns ==
    /\ spc = "body"
    /\ returned' = Append(returned, StageList[stage])
    /\ short_circuit' = "none"
    /\ stage' = stage + 1
    /\ spc' = "loop"
    /\ UNCHANGED <<stageArgs, ran, sexc, brokeAt, status>>
    /\ UNCHANGED <<coreVars, vmVars, extVars>>

\* locals()[stage]() raises
StageRaises ==
    /\ spc = "body"
    /\ \E exc \in {"Exception", "ZFSMalfunction"} : sexc' = exc
    /\ spc' = "raised"
    /\ UNCHANGED <<stageArgs, short_circuit, stage, ran, returned, brokeAt, status>>
    /\ UNCHANGED <<coreVars, vmVars, extVars>>

\* the for statement is exhausted
StagesOver ==
    /\ spc = "loop"
    /\ stage > Len(StageList)
    /\ spc' = "returned"
    /\ UNCHANGED <<stageArgs, short_circuit, stage, ran, returned, sexc, brokeAt,
                   status>>
    /\ UNCHANGED <<coreVars, vmVars, extVars>>

\* install_fedora has returned or raised: install_fedora_on_zfs returns
EntryReturns ==
    /\ spc \in {"returned", "raised"}
    /\ status' = ExitStatus(sexc)
    /\ spc' = "exited"
    /\ UNCHANGED <<stageArgs, short_circuit, stage, ran, returned, sexc, brokeAt>>
    /\ UNCHANGED <<coreVars, vmVars, extVars>>

\* the host no stage has worked on: a blank image, nothing attached
InitCoreIdle ==
    /\ InitLedgers
    /\ InitBdIdle
    /\ InitFsIdle
    /\ InitFsBlank
    /\ cfgVol = "vol.img"
    /\ cfgBoot = NoFile
    /\ files = {}
    /\ ptable = [m \in Media |-> {}]
    /\ lodev = [d \in LoopDevs |-> NoFile]
    /\ lodev0 = lodev
    /\ visible = [d \in Devs |-> {}]
    /\ mounted = {}
    /\ pools = {}
    /\ luksOpen = {}
    /\ dirs = {}

InitStages ==
    /\ InitCoreIdle
    /\ InitVmIdle
    /\ InitExtIdle
    /\ preflight \in {"ok", "notool", "noqemu", "badvolsize"}
    /\ break_before \in BreakStages \cup {"none"}
    /\ short0 \in BreakStages \cup {"none"}
    /\ short_circuit = short0
    /\ lukspassword \in Passwords
    /\ rootpassword \in Passwords
    /\ spc = "idle"
    /\ stage = 1
    /\ ran = <<>>
    /\ returned = <<>>
    /\ sexc = "none"
    /\ brokeAt = "none"
    /\ status = NoStatus

NextStages ==
    \/ Preflight
    \/ ValidatePasswords
    \/ StageCheck
    \/ StageReturns
    \/ StageRaises
    \/ StagesOver
    \/ EntryReturns

SpecStages == InitStages /\ [][NextStages]_vars

(***************************************************************************)
(* biiq, boot_image_in_qemu and the BootDriver thread                      *)
(***************************************************************************)
qemu_full_emulation_factor == 5

\* the longest single qemu_process.wait(t) in the wait loop, in seconds
WaitSlice == 5

Min(a, b) == IF a < b THEN a ELSE b

\* classes of the failure patterns BootDriver.run looks for in a line
Patterns == {"segfault", "auth", "oom", "panic", "emergency"}

\* completed lines the guest can write: lines without pattern, lines with the
\* pattern(s) of one or two classes, lines holding a shutdown marker
Markers == {"reboot: Power down", "reboot: Restarting system"}
PatternLines == Patterns \cup {"oom+segfault", "emergency+panic"}
\* prompts (text without newline) the driver answers
Prompts == {"nter passphrase for", "[0m", ")!", "(ttyS0)", " login: ",
            "Password: ", " ~]# "}
ConsoleItems == {"plain"} \cup PatternLines \cup Markers \cup Prompts

\* the pattern classes found in a line
PatternsIn(item) ==
    CASE item \in Patterns -> {item}
      [] item = "oom+segfault" -> {"oom", "segfault"}
      [] item = "emergency+panic" -> {"emergency", "panic"}
      [] OTHER -> {}

\* the if/elif chain of BootDriver.run, lines 335-360
Classify(ps) ==
    IF "segfault" \in ps THEN "SystemdSegfault"
    ELSE IF "auth" \in ps THEN "BadPW"
    ELSE IF "oom" \in ps THEN "OOMed"
    ELSE IF "panic" \in ps THEN "Panicked"
    ELSE IF "emergency" \in ps THEN "Emergency"
    ELSE "none"

BreaksOnErrorNever(err) == FALSE

\* `if self.error: ... break`
BreaksOnError(err) == err # "none"

ShutdownSeenAlways(seen) == TRUE

\* a marker is in self.get_output()
ShutdownSeen(seen) == seen

NeverKills(left, alive) == FALSE

KillsWhenOutOfTime(left, alive) == ~(left > 0)

\* the else branch of the TimeoutExpired handler: out of time or driver dead
MustKill(left, alive) == ~(left > 0 /\ alive)

OutcomeByRetcode(exception, rc) ==
    IF rc # 0 THEN "CalledProcessError"
    ELSE IF exception # "none" THEN exception
    ELSE "returned"

\* lines 243-249 of boot_image_in_qemu
Outcome(exception, rc) ==
    IF exception = "MachineNeverShutoff" /\ rc # 0 THEN "QEMUDied"
    ELSE IF exception # "none" THEN exception
    ELSE IF rc # 0 THEN "CalledProcessError"
    ELSE "returned"

\* biiq is called by a stage: fish_kernel_initrd copies the kernel and the
\* initrd to a scratch directory, which is put on the ledger
BiiqCall ==
    /\ bqpc = "idle"
    /\ qpc = "idle"
    /\ boots < MaxBoots
    /\ boots' = boots + 1
    /\ attempts' = 0
    /\ \E f \in {1, 2} : factor' = f
    /\ \/ /\ kerneltempdir' = TRUE
          /\ bqpc' = "boot"
          /\ biiqRes' = "none"
       \/ /\ biiqRes' = "Exception"
          /\ UNCHANGED <<kerneltempdir, bqpc>>
    /\ UNCHANGED <<superVars, emuVars, driverVars>>
    /\ UNCHANGED <<coreVars, stageVars, extVars>>

\* get_associated_lodev of a path that was given finds a loop device
StillAttached(path) == path # NoFile /\ AssociatedLodev(path) # NoFile

\* boot_image_in_qemu up to the wait loop: the two assertions, the time
\* budget, Popen, the driver
QemuStart ==
    /\ bqpc = "boot"
    /\ qpc = "idle"
    /\ bqpc' = "booting"
    /\ attempts' = attempts + 1
    /\ IF StillAttached(cfgVol) \/ StillAttached(cfgBoot)
       THEN /\ vres' = "AssertionError"
            /\ qpc' = "done"
            /\ UNCHANGED <<budget, emuVars, dpc, derror, sawMarker, luksState,
                           loginState, nread, nwritten, lastline, typed,
                           firstMatch, readAfter>>
       ELSE /\ budget' = IF kvm THEN QemuTimeout * factor
                         ELSE QemuTimeout * factor * qemu_full_emulation_factor
            /\ emu' = "running"
            /\ retcode' = NoRet
            /\ killed' = FALSE
            /\ aliveAtKill' = FALSE
            /\ pending' = "none"
            /\ emitted' = 0
            /\ dpc' = IF interactive THEN "new" ELSE "reading"
            /\ derror' = "none"
            /\ sawMarker' = FALSE
            /\ luksState' = "unseen"
            /\ loginState' = "unseen"
            /\ nread' = 0
            /\ nwritten' = 0
            /\ lastline' = {}
            /\ typed' = <<>>
            /\ firstMatch' = "none"
            /\ readAfter' = 0
            /\ vres' = "none"
            /\ qpc' = IF interactive THEN "final" ELSE "wait"
    /\ UNCHANGED <<interactive, kvm, withLuks, factor, boots, biiqRes,
                   kerneltempdir>>
    /\ UNCHANGED <<coreVars, stageVars, extVars>>

\* the guest writes one of the items to its console, up to limit items
GuestEmits(items, limit) ==
    /\ emu = "running"
    /\ ~interactive
    /\ pending = "none"
    /\ emitted < limit
    /\ \E item \in items : pending' = item
    /\ emitted' = emitted + 1
    /\ UNCHANGED <<emu, retcode, killed, aliveAtKill>>
    /\ UNCHANGED <<biiqVars, superVars, driverVars, coreVars, stageVars, extVars>>

\* the guest writes a line or a prompt to its console
GuestWrites == GuestEmits(ConsoleItems, MaxConsole)

\* a guest that boots without failure: prompts and lines without pattern
GuestAsks == GuestEmits(Prompts \cup {"plain"}, MaxPrompts)

\* the emulator exits by itself
EmulatorExits ==
    /\ emu = "running"
    /\ emu' = "exited"
    /\ \E rc \in {0, 1} : retcode' = rc
    /\ UNCHANGED <<killed, aliveAtKill, pending, emitted>>
    /\ UNCHANGED <<biiqVars, superVars, driverVars, coreVars, stageVars, extVars>>

\* one iteration of `while proper_timeout > 0`
QemuWait ==
    /\ qpc = "wait"
    /\ budget > 0
    /\ LET t == Min(budget, WaitSlice)
           left == budget - t
       IN /\ budget' = left
          /\ IF emu = "running" /\ MustKill(left, dpc # "dead")
             THEN /\ emu' = "exited"
                  /\ retcode' = -9
                  /\ killed' = TRUE
                  /\ aliveAtKill' = (dpc # "dead")
             ELSE UNCHANGED <<emu, retcode, killed, aliveAtKill>>
    /\ UNCHANGED <<interactive, kvm, qpc, vres, pending, emitted>>
    /\ UNCHANGED <<biiqVars, driverVars, coreVars, stageVars, extVars>>

\* the wait loop is over
QemuWaitOver ==
    /\ qpc = "wait"
    /\ ~(budget > 0)
    /\ qpc' = "join"
    /\ UNCHANGED <<interactive, kvm, budget, vres>>
    /\ UNCHANGED <<biiqVars, emuVars, driverVars, coreVars, stageVars, extVars>>

\* driver.join() returns or raises self.error
DriverJoin ==
    /\ qpc = "join"
    /\ dpc = "dead"
    /\ qpc' = "final"
    /\ UNCHANGED <<interactive, kvm, budget, vres>>
    /\ UNCHANGED <<biiqVars, emuVars, driverVars, coreVars, stageVars, extVars>>

\* retcode = qemu_process.wait() and what follows it
QemuFinal ==
    /\ qpc = "final"
    /\ emu = "exited"
    /\ vres' = Outcome(derror, retcode)
    /\ qpc' = "done"
    /\ UNCHANGED <<interactive, kvm, budget>>
    /\ UNCHANGED <<biiqVars, emuVars, driverVars, coreVars, stageVars, extVars>>

\* the with block of biiq is left: the scratch directory is removed
BiiqLeave ==
    /\ bqpc = "booting"
    /\ qpc = "done"
    /\ qpc' = "idle"
    /\ bqpc' = "idle"
    /\ biiqRes' = vres
    /\ kerneltempdir' = FALSE
    /\ UNCHANGED <<factor, attempts, boots, interactive, kvm, budget, vres>>
    /\ UNCHANGED <<emuVars, driverVars, coreVars, stageVars, extVars>>

\* the states of luks_passphrase_prompt_state, in the order they are declared
LuksStates == <<"unseen", "waiting_for_escape_sequence", "pending_write",
                "written">>

\* the states of login_prompt_state, in the order they are declared
LoginStates == <<"unseen", "login_prompt_about_to_appear", "login_prompt_seen",
                 "login_written", "password_prompt_seen", "password_written",
                 "shell_prompt_seen", "poweroff_written">>

EndOfPromptSeenAlways(s) == TRUE

\* `b"[0m" in s or b")!" in s`
EndOfPromptSeen(s) == "[0m" \in s \/ ")!" \in s

\* the if statements on luks_passphrase_prompt_state in one iteration: the
\* states the local passes through, s being the prompts in the local s
LuksPath(st, s) ==
    LET a == IF st = "unseen" /\ "nter passphrase for" \in s
             THEN "waiting_for_escape_sequence" ELSE st
        b == IF a = "waiting_for_escape_sequence" /\ EndOfPromptSeen(s)
             THEN "pending_write" ELSE a
        c == IF b = "pending_write" THEN "written" ELSE b
    IN IF withLuks THEN <<st, a, b, c>> ELSE <<st>>

LoginPromptSeenAlways(s) == TRUE

\* `b" login: " in s`
LoginPromptSeen(s) == " login: " \in s

\* the if statements on login_prompt_state in one iteration
LoginPath(st, s) ==
    LET a == IF st = "unseen" /\ "(ttyS0)" \in s
             THEN "login_prompt_about_to_appear" ELSE st
        b == IF a = "login_prompt_about_to_appear" /\ LoginPromptSeen(s)
             THEN "login_prompt_seen" ELSE a
        c == IF b = "login_prompt_seen" THEN "login_written" ELSE b
        d == IF c = "login_written" /\ "Password: " \in s
             THEN "password_prompt_seen" ELSE c
        e == IF d = "password_prompt_seen" THEN "password_written" ELSE d
        f == IF e = "password_written" /\ " ~]# " \in s
             THEN "shell_prompt_seen" ELSE e
        g == IF f = "shell_prompt_seen" THEN "poweroff_written" ELSE f
    IN <<st, a, b, c, d, e, f, g>>

\* what is written to the console when a local goes from one state to the
\* next: write_luks_passphrase, hit_enter, write_login, write_password,
\* write_poweroff
WriteFor(from, to) ==
    CASE from = "pending_write" /\ to = "written" -> <<"passphrase">>
      [] from = "unseen" /\ to = "login_prompt_about_to_appear" -> <<"ENTER">>
      [] from = "login_prompt_seen" /\ to = "login_written" -> <<"login">>
      [] from = "password_prompt_seen" /\ to = "password_written" -> <<"password">>
      [] from = "shell_prompt_seen" /\ to = "poweroff_written" -> <<"poweroff">>
      [] OTHER -> <<>>

\* the writes along a path of states
PathWrites(path) ==
    LET F[k \in 0..(Len(path) - 1)] ==
            IF k = 0 THEN <<>> ELSE F[k - 1] \o WriteFor(path[k], path[k + 1])
    IN F[Len(path) - 1]

\* what the driver does in an iteration whose local s holds the prompts s
AnswerPrompt(s) ==
    CHOOSE ans \in {[luks |-> lp[Len(lp)],
                     login |-> gp[Len(gp)],
                     writes |-> Len(PathWrites(lp)) + Len(PathWrites(gp)),
                     typed |-> PathWrites(lp) \o PathWrites(gp)] :
                        lp \in {LuksPath(luksState, s)},
                        gp \in {LoginPath(loginState, s)}} : TRUE

\* iterations of `while True` of BootDriver.run that read one console item: a
\* prompt joins the line not yet ended, a line ends it
DriverRead ==
    /\ dpc = "reading"
    /\ pending # "none"
    /\ LET cls == Classify(PatternsIn(pending))
           err == IF cls # "none" THEN cls ELSE derror
           s == IF pending \in Prompts THEN lastline \cup {pending} ELSE lastline
       IN \E ans \in {AnswerPrompt(s)} :
          /\ derror' = err
          /\ firstMatch' = IF firstMatch = "none" /\ PatternsIn(pending) # {}
                           THEN pending ELSE firstMatch
          /\ sawMarker' = (sawMarker \/ pending \in Markers)
          /\ lastline' = IF pending \in Prompts THEN s ELSE {}
          /\ luksState' = ans.luks
          /\ loginState' = ans.login
          /\ nwritten' = nwritten + ans.writes
          /\ typed' = typed \o ans.typed
          /\ nread' = nread + 1
          /\ readAfter' = IF derror # "none" THEN readAfter + 1 ELSE readAfter
          /\ dpc' = IF BreaksOnError(err) THEN "dead" ELSE "reading"
    /\ pending' = "none"
    /\ UNCHANGED <<withLuks, emu, retcode, killed, aliveAtKill, emitted>>
    /\ UNCHANGED <<biiqVars, superVars, coreVars, stageVars, extVars>>

\* read returns b"" or fails with EIO: the loop ends, the markers are looked for
DriverEof ==
    /\ dpc = "reading"
    /\ pending = "none"
    /\ emu = "exited"
    /\ dpc' = "dead"
    /\ derror' = IF derror = "none" /\ ~ShutdownSeen(sawMarker)
                 THEN "MachineNeverShutoff" ELSE derror
    /\ UNCHANGED <<withLuks, sawMarker, luksState, loginState, nread, nwritten,
                   lastline, typed, firstMatch, readAfter>>
    /\ UNCHANGED <<biiqVars, superVars, emuVars, coreVars, stageVars, extVars>>

InitVm ==
    /\ InitCoreIdle
    /\ InitStagesIdle
    /\ InitExtIdle
    /\ interactive \in BOOLEAN
    /\ kvm \in BOOLEAN
    /\ withLuks \in BOOLEAN
    /\ factor = 1
    /\ bqpc = "idle"
    /\ attempts = 0
    /\ boots = 0
    /\ biiqRes = "none"
    /\ kerneltempdir = FALSE
    /\ qpc = "idle"
    /\ budget = 0
    /\ emu = "none"
    /\ retcode = NoRet
    /\ killed = FALSE
    /\ aliveAtKill = FALSE
    /\ pending = "none"
    /\ emitted = 0
    /\ dpc = "new"
    /\ derror = "none"
    /\ sawMarker = FALSE
    /\ luksState = "unseen"
    /\ loginState = "unseen"
    /\ nread = 0
    /\ nwritten = 0
    /\ lastline = {}
    /\ typed = <<>>
    /\ firstMatch = "none"
    /\ readAfter = 0
    /\ vres = "none"

NextVm ==
    \/ BiiqCall
    \/ QemuStart
    \/ GuestWrites
    \/ EmulatorExits
    \/ QemuWait
    \/ QemuWaitOver
    \/ DriverJoin
    \/ QemuFinal
    \/ BiiqLeave
    \/ DriverRead
    \/ DriverEof

SpecVm == InitVm /\ [][NextVm]_vars

\* the main thread and the driver thread keep running; the guest owes nothing
SpecVmFair ==
    /\ SpecVm
    /\ WF_vars(QemuStart)
    /\ WF_vars(QemuWait)
    /\ WF_vars(QemuWaitOver)
    /\ WF_vars(DriverJoin)
    /\ WF_vars(QemuFinal)
    /\ WF_vars(DriverRead)
    /\ WF_vars(DriverEof)

\* biiq has called boot_image_in_qemu, with or without a passphrase
InitDriver ==
    /\ InitCoreIdle
    /\ InitStagesIdle
    /\ InitExtIdle
    /\ interactive = FALSE
    /\ kvm = TRUE
    /\ withLuks \in BOOLEAN
    /\ factor = 1
    /\ bqpc = "boot"
    /\ attempts = 0
    /\ boots = 0
    /\ biiqRes = "none"
    /\ kerneltempdir = FALSE
    /\ qpc = "idle"
    /\ budget = 0
    /\ emu = "none"
    /\ retcode = NoRet
    /\ killed = FALSE
    /\ aliveAtKill = FALSE
    /\ pending = "none"
    /\ emitted = 0
    /\ dpc = "new"
    /\ derror = "none"
    /\ sawMarker = FALSE
    /\ luksState = "unseen"
    /\ loginState = "unseen"
    /\ nread = 0
    /\ nwritten = 0
    /\ lastline = {}
    /\ typed = <<>>
    /\ firstMatch = "none"
    /\ readAfter = 0
    /\ vres = "none"

NextDriver ==
    \/ QemuStart
    \/ GuestAsks
    \/ EmulatorExits
    \/ DriverRead
    \/ DriverEof

SpecDriver == InitDriver /\ [][NextDriver]_vars

(***************************************************************************)
(* retry: one retry object and the callable it wraps                       *)
(***************************************************************************)
\* how an invocation of kallable can end
Outcomes == {"ok", "retryable", "other"}

\* `if self.N >= 1` in the handler of the retryable exception
MayRetry(n) == n >= 1

\* the wrapped callable is called: retryer starts its `while True`
RetryCall ==
    /\ rpc \in {"idle", "returned", "raised"}
    /\ rcalls < MaxCalls
    /\ rcalls' = rcalls + 1
    /\ rpc' = "calling"
    /\ rlog' = <<>>
    /\ UNCHANGED <<rN0, rN>>
    /\ UNCHANGED <<coreVars, stageVars, vmVars, pmVars, runVars, auxVars>>

\* one iteration of `while True`: kallable is invoked
RetryInvoke ==
    /\ rpc = "calling"
    /\ \E out \in Outcomes :
          /\ rlog' = Append(rlog, out)
          /\ CASE out = "ok" -> rpc' = "returned" /\ rN' = rN
               [] out = "other" -> rpc' = "raised" /\ rN' = rN
               [] out = "retryable" ->
                     IF MayRetry(rN)
                     THEN rpc' = "calling" /\ rN' = rN - 1
                     ELSE rpc' = "raised" /\ rN' = rN
    /\ UNCHANGED <<rN0, rcalls>>
    /\ UNCHANGED <<coreVars, stageVars, vmVars, pmVars, runVars, auxVars>>

\* retry(N)(kallable) has been evaluated, the callable has not been called
InitRetry ==
    /\ InitCoreIdle
    /\ InitStagesIdle
    /\ InitVmIdle
    /\ rN0 \in 0..MaxRetries
    /\ rN = rN0
    /\ rpc = "idle"
    /\ rlog = <<>>
    /\ rcalls = 0
    /\ InitPmIdle
    /\ InitRunIdle
    /\ InitAuxIdle

NextRetry ==
    \/ RetryCall
    \/ RetryInvoke

SpecRetry == InitRetry /\ [][NextRetry]_vars

(***************************************************************************)
(* pm._run_with_retries                                                    *)
(***************************************************************************)
\* what a package-manager command can print
Outputs == {"", "error: Plugin selinux", "Rpmdb checksum is invalid",
            "You probably have corrupted RPMDB",
            "Thread died in Berkeley DB library"}

NothingRetryable(dl, ret, out) == IF ret = 0 THEN "ok" ELSE "CalledProcessError"

\* _check_call_detect_retryable_errors: what it returns or raises
DetectRetryable(dl, ret, out) ==
    IF ret = 0 THEN "ok"
    ELSE IF dl THEN "DownloadFailed"
    ELSE IF out = "error: Plugin selinux" THEN "PluginSelinuxRetryable"
    ELSE "CalledProcessError"

\* the exception classes derived from retrymod.Retryable
IsRetryable(cls) == cls \in {"DownloadFailed", "PluginSelinuxRetryable"}

rwFrame == <<coreVars, stageVars, vmVars, pmVars, runVars, preVars, teeVars,
             umVars>>

\* _run_with_retries(cmd): r = retrymod.retry(2), and the callable is called
RunWithRetries ==
    /\ rpc \in {"idle", "returned", "raised"}
    /\ rcalls < MaxCalls
    /\ rcalls' = rcalls + 1
    /\ \E dl \in BOOLEAN : downloadonly' = dl
    /\ rN0' = 2
    /\ rN' = 2
    /\ rpc' = "calling"
    /\ rlog' = <<>>
    /\ runs' = <<>>
    /\ UNCHANGED rwFrame

\* one iteration of retryer: the command is run and its result classified
RunOnce ==
    /\ rpc = "calling"
    /\ \E ret \in {0, 1}, out \in Outputs :
         LET cls == DetectRetryable(downloadonly, ret, out)
         IN /\ runs' = Append(runs, [ret |-> ret, out |-> out])
            /\ rlog' = Append(rlog, cls)
            /\ IF cls = "ok" THEN rpc' = "returned" /\ rN' = rN
               ELSE IF IsRetryable(cls) /\ MayRetry(rN)
               THEN rpc' = "calling" /\ rN' = rN - 1
               ELSE rpc' = "raised" /\ rN' = rN
    /\ UNCHANGED <<rN0, rcalls, downloadonly, rwFrame>>

InitRunWithRetries ==
    /\ InitCoreIdle
    /\ InitStagesIdle
    /\ InitVmIdle
    /\ InitExtIdle

NextRunWithRetries ==
    \/ RunWithRetries
    \/ RunOnce

SpecRunWithRetries == InitRunWithRetries /\ [][NextRunWithRetries]_vars

(***************************************************************************)
(* pm: ensure_packages_installed of the three package managers             *)
(***************************************************************************)
PmKinds == {"chroot", "fedora", "qubes"}

\* commands that install packages
InstallCmds == {"dnf install --downloadonly", "dnf install",
                "qubes-dom0-update --action=install"}

LockAlwaysFree(l) == TRUE

\* fcntl.flock(LOCK_EX) returns once no other open file holds the lock
LockFree(l) == lockOwner[l] = 0

\* the lock file of the cache directory a chroot package manager computes
CacheLock(p) == pmRel[p]

pmFrame == <<coreVars, stageVars, vmVars, retryVars, runVars, auxVars>>

\* ensure_packages_installed is called
PmCall(p) ==
    /\ pmpc[p] = "idle"
    /\ pmCalls[p] < MaxPmCalls
    /\ pmCalls' = [pmCalls EXCEPT ![p] = @ + 1]
    /\ pmCmds' = [pmCmds EXCEPT ![p] = <<>>]
    /\ pmExc' = [pmExc EXCEPT ![p] = FALSE]
    /\ pmpc' = [pmpc EXCEPT ![p] =
                  IF pmKind[p] # "chroot" THEN "local"
                  ELSE IF pmCache[p] THEN "lock_top" ELSE "config"]
    /\ UNCHANGED <<pmKind, pmCache, pmRel, pmInst, pmPrevOk, pmMount, lockOwner>>
    /\ UNCHANGED pmFrame

\* _method without cache directory: the temporary dnf configuration
PmConfig(p) ==
    /\ pmpc[p] = "config"
    /\ \E ok \in BOOLEAN :
          /\ pmpc' = [pmpc EXCEPT ![p] = IF ok THEN "query" ELSE "done"]
          /\ pmExc' = [pmExc EXCEPT ![p] = ~ok]
    /\ UNCHANGED <<pmKind, pmCache, pmRel, pmInst, pmCmds, pmCalls, pmPrevOk,
                   pmMount, lockOwner>>
    /\ UNCHANGED pmFrame

\* lockfile(self._cachedir / "ifz-lockfile").__enter__
PmLockTop(p) ==
    /\ pmpc[p] = "lock_top"
    /\ LockFree("ifz-lockfile")
    /\ lockOwner' = [lockOwner EXCEPT !["ifz-lockfile"] = p]
    /\ pmpc' = [pmpc EXCEPT ![p] = "top"]
    /\ UNCHANGED <<pmKind, pmCache, pmRel, pmInst, pmExc, pmCmds, pmCalls,
                   pmPrevOk, pmMount>>
    /\ UNCHANGED pmFrame

\* the body of the first with block and its __exit__: the cache directory of
\* this host version and release is made, the lock is released
PmTopBody(p) ==
    /\ pmpc[p] = "top"
    /\ lockOwner' = [lockOwner EXCEPT !["ifz-lockfile"] = 0]
    /\ \E ok \in BOOLEAN :
          /\ pmpc' = [pmpc EXCEPT ![p] = IF ok THEN "lock_cache" ELSE "done"]
          /\ pmExc' = [pmExc EXCEPT ![p] = ~ok]
    /\ UNCHANGED <<pmKind, pmCache, pmRel, pmInst, pmCmds, pmCalls, pmPrevOk,
                   pmMount>>
    /\ UNCHANGED pmFrame

\* lockfile(cachedir / "lock").__enter__
PmLockCache(p) ==
    /\ pmpc[p] = "lock_cache"
    /\ LockFree(CacheLock(p))
    /\ lockOwner' = [lockOwner EXCEPT ![CacheLock(p)] = p]
    /\ pmpc' = [pmpc EXCEPT ![p] = "mount"]
    /\ UNCHANGED <<pmKind, pmCache, pmRel, pmInst, pmExc, pmCmds, pmCalls,
                   pmPrevOk, pmMount>>
    /\ UNCHANGED pmFrame

\* the cache is bind-mounted into the chroot, the dnf configuration is made
PmMountCache(p) ==
    /\ pmpc[p] = "mount"
    /\ \E mnt \in BOOLEAN, cfg \in BOOLEAN :
          /\ pmMount' = [pmMount EXCEPT ![p] = mnt]
          /\ pmExc' = [pmExc EXCEPT ![p] = ~(mnt /\ cfg)]
          /\ pmpc' = [pmpc EXCEPT ![p] = IF mnt /\ cfg THEN "query" ELSE "finally"]
    /\ UNCHANGED <<pmKind, pmCache, pmRel, pmInst, pmCmds, pmCalls, pmPrevOk,
                   lockOwner>>
    /\ UNCHANGED pmFrame

\* rpm -q of the packages inside the chroot
PmQuery(p) ==
    /\ pmpc[p] = "query"
    /\ pmCmds' = [pmCmds EXCEPT ![p] = Append(@, "rpm -q")]
    /\ pmpc' = [pmpc EXCEPT ![p] = IF pmInst[p] THEN "finally" ELSE "download"]
    /\ UNCHANGED <<pmKind, pmCache, pmRel, pmInst, pmExc, pmCalls, pmPrevOk,
                   pmMount, lockOwner>>
    /\ UNCHANGED pmFrame

\* first option of DNF_DOWNLOAD_THEN_INSTALL, run with retries
PmDownload(p) ==
    /\ pmpc[p] = "download"
    /\ pmCmds' = [pmCmds EXCEPT ![p] = Append(@, "dnf install --downloadonly")]
    /\ \E ok \in BOOLEAN :
          /\ pmpc' = [pmpc EXCEPT ![p] = IF ok THEN "install" ELSE "finally"]
          /\ pmExc' = [pmExc EXCEPT ![p] = ~ok]
    /\ UNCHANGED <<pmKind, pmCache, pmRel, pmInst, pmCalls, pmPrevOk, pmMount,
                   lockOwner>>
    /\ UNCHANGED pmFrame

\* second option of DNF_DOWNLOAD_THEN_INSTALL, run with retries
PmInstall(p) ==
    /\ pmpc[p] = "install"
    /\ pmCmds' = [pmCmds EXCEPT ![p] = Append(@, "dnf install")]
    /\ \E ok \in BOOLEAN :
          /\ pmInst' = [pmInst EXCEPT ![p] = @ \/ ok]
          /\ pmExc' = [pmExc EXCEPT ![p] = ~ok]
    /\ pmpc' = [pmpc EXCEPT ![p] = "finally"]
    /\ UNCHANGED <<pmKind, pmCache, pmRel, pmCalls, pmPrevOk, pmMount, lockOwner>>
    /\ UNCHANGED pmFrame

\* the finally block of _method: the configuration is closed, the cache is
\* unmounted
PmFinally(p) ==
    /\ pmpc[p] = "finally"
    /\ IF pmCache[p]
       THEN /\ pmpc' = [pmpc EXCEPT ![p] = "unlock"]
            /\ IF pmMount[p]
               THEN \E ok \in BOOLEAN :
                       /\ pmMount' = [pmMount EXCEPT ![p] = ~ok]
                       /\ pmExc' = [pmExc EXCEPT ![p] = @ \/ ~ok]
               ELSE UNCHANGED <<pmMount, pmExc>>
       ELSE /\ pmpc' = [pmpc EXCEPT ![p] = "done"]
            /\ UNCHANGED <<pmMount, pmExc>>
    /\ UNCHANGED <<pmKind, pmCache, pmRel, pmInst, pmCmds, pmCalls, pmPrevOk,
                   lockOwner>>
    /\ UNCHANGED pmFrame

\* lockfile(cachedir / "lock").__exit__
PmUnlock(p) ==
    /\ pmpc[p] = "unlock"
    /\ lockOwner' = [lockOwner EXCEPT ![CacheLock(p)] = 0]
    /\ pmpc' = [pmpc EXCEPT ![p] = "done"]
    /\ UNCHANGED <<pmKind, pmCache, pmRel, pmInst, pmExc, pmCmds, pmCalls,
                   pmPrevOk, pmMount>>
    /\ UNCHANGED pmFrame

\* LocalFedoraPackageManager: first iteration of the loop over
\* DNF_DOWNLOAD_THEN_INSTALL; LocalQubesOSPackageManager: its one command
PmLocal(p) ==
    /\ pmpc[p] = "local"
    /\ pmCmds' = [pmCmds EXCEPT ![p] =
                    Append(@, IF pmKind[p] = "fedora" THEN "dnf install"
                              ELSE "qubes-dom0-update --action=install")]
    /\ \E ok \in BOOLEAN :
          /\ pmInst' = [pmInst EXCEPT ![p] = @ \/ ok]
          /\ pmExc' = [pmExc EXCEPT ![p] = ~ok]
          /\ pmpc' = [pmpc EXCEPT ![p] =
                        IF ok /\ pmKind[p] = "fedora" THEN "local2" ELSE "done"]
    /\ UNCHANGED <<pmKind, pmCache, pmRel, pmCalls, pmPrevOk, pmMount, lockOwner>>
    /\ UNCHANGED pmFrame

\* LocalFedoraPackageManager: second iteration, the same command again
PmLocalAgain(p) ==
    /\ pmpc[p] = "local2"
    /\ pmCmds' = [pmCmds EXCEPT ![p] = Append(@, "dnf install")]
    /\ \E ok \in BOOLEAN : pmExc' = [pmExc EXCEPT ![p] = ~ok]
    /\ pmpc' = [pmpc EXCEPT ![p] = "done"]
    /\ UNCHANGED <<pmKind, pmCache, pmRel, pmInst, pmCalls, pmPrevOk, pmMount,
                   lockOwner>>
    /\ UNCHANGED pmFrame

\* ensure_packages_installed returns or raises
PmReturn(p) ==
    /\ pmpc[p] = "done"
    /\ pmpc' = [pmpc EXCEPT ![p] = "idle"]
    /\ pmPrevOk' = [pmPrevOk EXCEPT ![p] = @ \/ ~pmExc[p]]
    /\ UNCHANGED <<pmKind, pmCache, pmRel, pmInst, pmExc, pmCmds, pmCalls,
                   pmMount, lockOwner>>
    /\ UNCHANGED pmFrame

\* two installer processes, each with its package manager and its target
InitPm ==
    /\ InitCoreIdle
    /\ InitStagesIdle
    /\ InitVmIdle
    /\ InitRetryIdle
    /\ InitRunIdle
    /\ InitAuxIdle
    /\ pmKind \in [Procs -> PmKinds]
    /\ pmCache \in [Procs -> BOOLEAN]
    /\ pmRel \in [Procs -> Releases]
    /\ \A p \in Procs : pmCache[p] => pmKind[p] = "chroot"
    /\ \A p \in Procs : pmRel[p] # "41" => pmCache[p]
    /\ pmInst \in [Procs -> BOOLEAN]
    /\ pmpc = [p \in Procs |-> "idle"]
    /\ pmExc = [p \in Procs |-> FALSE]
    /\ pmCmds = [p \in Procs |-> <<>>]
    /\ pmCalls = [p \in Procs |-> 0]
    /\ pmPrevOk = [p \in Procs |-> FALSE]
    /\ pmMount = [p \in Procs |-> FALSE]
    /\ lockOwner = [l \in LockFiles |-> 0]

NextPm ==
    \E p \in Procs :
        \/ PmCall(p)
        \/ PmConfig(p)
        \/ PmLockTop(p)
        \/ PmTopBody(p)
        \/ PmLockCache(p)
        \/ PmMountCache(p)
        \/ PmQuery(p)
        \/ PmDownload(p)
        \/ PmInstall(p)
        \/ PmFinally(p)
        \/ PmUnlock(p)
        \/ PmLocal(p)
        \/ PmLocalAgain(p)
        \/ PmReturn(p)

SpecPm == InitPm /\ [][NextPm]_vars

(***************************************************************************)
(* The functions of install_fedora that open blockdev_context and          *)
(* filesystem_context in one with statement                                *)
(***************************************************************************)
Scopes == {"beginning", "deploy_zfs", "reload_chroot", "bootloader_install",
           "fish_kernel_initrd"}

\* the create argument each of them passes to both context managers
ScopeCreate(sc) == sc \in {"beginning", "deploy_zfs"}

SnapshotMissingAlways == TRUE

\* `zfs list -t snapshot <pool>/ROOT/os@initial` fails
SnapshotMissing == ~snapExists

FishReturnedEarly == TRUE

\* the with statement of fish_kernel_initrd is over and the return is reached
FishReturned == bpc = "out" /\ bruns > bruns0 /\ bres = "returned"

runFrame == <<stageVars, retryVars, pmVars, auxVars>>

\* one of the functions is called
ScopeOpen ==
    /\ npc = "idle"
    /\ bpc = "out"
    /\ fpc = "out"
    /\ upc = "idle"
    /\ bqpc = "idle"
    /\ bruns < MaxScopes
    /\ \E sc \in Scopes : scope' = sc
    /\ npc' = "open"
    /\ bruns0' = bruns
    /\ inPlace' = HostHolds
    /\ fruns0' = fruns
    /\ UNCHANGED <<snapExists, snapLog, coreVars, vmVars, runFrame>>

\* with blockdev_context(..., create=...) as (rootpart, bootpart, efipart)
ScopeBdEnter ==
    /\ npc = "open"
    /\ bruns = bruns0
    /\ BdEnter
    /\ bcreate' = ScopeCreate(scope)

\* ..., filesystem_context(..., create=...) as (...)
ScopeFsEnter ==
    /\ npc = "open"
    /\ bpc = "yielded"
    /\ fruns = fruns0
    /\ FsEnter
    /\ fcreate' = ScopeCreate(scope)

\* the body of the with statement; in reload_chroot it ends with the snapshot
ScopeBody ==
    /\ npc = "open"
    /\ fpc = "yielded"
    /\ \/ /\ npc' = "bodyexc"
          /\ UNCHANGED <<snapExists, snapLog>>
       \/ /\ scope = "reload_chroot" /\ SnapshotMissing
          /\ \E ok \in BOOLEAN :
                /\ snapLog' = Append(snapLog, IF ok /\ ~snapExists THEN "ok"
                                              ELSE "fail")
                /\ snapExists' = (snapExists \/ ok)
                /\ npc' = IF ok /\ ~snapExists THEN "bodyok" ELSE "bodyexc"
       \/ /\ ~(scope = "reload_chroot" /\ SnapshotMissing)
          /\ npc' = "bodyok"
          /\ UNCHANGED <<snapExists, snapLog>>
    /\ UNCHANGED <<scope, bruns0, fruns0, inPlace, coreVars, vmVars, runFrame>>

\* the body is left: filesystem_context resumes after its yield
ScopeFsBodyEnds ==
    /\ npc \in {"bodyok", "bodyexc"}
    /\ FsBodyEnds
    /\ fexc' = IF npc = "bodyok" THEN "none" ELSE "body"

\* filesystem_context is left: blockdev_context resumes after its yield
ScopeBdBodyEnds ==
    /\ npc # "idle"
    /\ fpc = "out"
    /\ fruns > fruns0
    /\ BdBodyEnds
    /\ bexc' = IF fres = "returned" THEN "none" ELSE "body"

\* biiq after fish_kernel_initrd has returned: the scratch directory is put
\* on the ledger
BiiqFished ==
    /\ npc \in {"bodyok", "bodyexc"}
    /\ scope = "fish_kernel_initrd"
    /\ FishReturned
    /\ bqpc = "idle"
    /\ qpc = "idle"
    /\ npc' = "boot"
    /\ boots' = boots + 1
    /\ attempts' = 0
    /\ \E f \in {1, 2} : factor' = f
    /\ kerneltempdir' = TRUE
    /\ bqpc' = "boot"
    /\ biiqRes' = "none"
    /\ UNCHANGED <<superVars, emuVars, driverVars>>
    /\ UNCHANGED <<scope, bruns0, fruns0, inPlace, snapExists, snapLog, coreVars, runFrame>>

\* the function returns or raises
ScopeClose ==
    /\ upc = "idle"
    /\ \/ /\ npc \in {"open", "bodyok", "bodyexc"}
          /\ bpc = "out"
          /\ bruns > bruns0
          /\ ~(scope = "fish_kernel_initrd" /\ bres = "returned")
       \/ /\ npc = "boot"
          /\ bqpc = "idle"
    /\ npc' = "idle"
    /\ scope' = "none"
    /\ UNCHANGED <<bruns0, fruns0, inPlace, snapExists, snapLog, coreVars, vmVars, runFrame>>

\* an image an earlier run has completed, or no image yet; --interactive-qemu
InitScopes ==
    /\ InitLedgers
    /\ InitBdIdle
    /\ InitFsIdle
    /\ InitStagesIdle
    /\ InitVmQuiet
    /\ interactive = TRUE
    /\ InitRetryIdle
    /\ InitPmIdle
    /\ InitAuxIdle
    /\ scope = "none"
    /\ npc = "idle"
    /\ bruns0 = 0
    /\ fruns0 = 0
    /\ inPlace = NothingInPlace
    /\ snapLog = <<>>
    /\ lukspw \in BOOLEAN
    /\ \E complete \in BOOLEAN :
         /\ blk = [x \in FsParts |->
                     CASE x = "boot" /\ complete -> [type |-> "ext4", uuid |-> "b0"]
                       [] x = "efi" /\ complete -> [type |-> "vfat", uuid |-> "e0"]
                       [] x = "root" /\ complete /\ lukspw ->
                             [type |-> "crypto_LUKS", uuid |-> "r0"]
                       [] x = "swap" /\ complete -> [type |-> "swap", uuid |-> "s0"]
                       [] OTHER -> Blank]
         /\ poolDisk = complete
         /\ datasets = IF complete THEN {"ROOT", "ROOT/os", "swap"} ELSE {}
         /\ files = IF complete THEN {"vol.img"} ELSE {}
         /\ ptable = [m \in Media |->
                        IF m = "vol.img" /\ complete THEN {1, 2, 3, 4} ELSE {}]
         /\ snapExists \in {FALSE, complete}
         /\ lodev \in [LoopDevs -> {NoFile, "vol.img"}]
         /\ lodev["loop0"] = NoFile
         /\ lodev["loop2"] = NoFile
         /\ lodev["loop1"] = "vol.img" => complete
    /\ cfgVol = "vol.img"
    /\ cfgBoot = NoFile
    /\ lodev0 = lodev
    /\ visible = [d \in Devs |-> Settled(d)]
    /\ mounted = {}
    /\ pools = {}
    /\ luksOpen = {}
    /\ dirs = {}

NextScopes ==
    \/ ScopeOpen
    \/ ScopeBdEnter
    \/ BdVol
    \/ BdBoot
    \/ BdProbeFirst
    \/ BdProbeSecond
    \/ BdYield
    \/ KernelSettle
    \/ ScopeFsEnter
    \/ FsSetupBootFilesystems
    \/ FsLuks
    \/ FsPool
    \/ FsRootDataset
    \/ FsOsDataset
    \/ FsSwapZvol
    \/ FsZvolWait
    \/ FsSwapSig
    \/ FsMountBoot
    \/ FsMountEfi
    \/ FsBindMountsAndYield
    \/ ScopeBody
    \/ ScopeFsBodyEnds
    \/ FsPropagate
    \/ FsLeft
    \/ ScopeBdBodyEnds
    \/ BdUnwind
    \/ BdLeft
    \/ UndoAct
    \/ UndoPop
    \/ UndoFinish
    \/ BiiqFished
    \/ QemuStart
    \/ EmulatorExits
    \/ QemuFinal
    \/ BiiqLeave
    \/ ScopeClose

SpecScopes == InitScopes /\ [][NextScopes]_vars

(***************************************************************************)
(* deploy_zfs_in_machine: the bind mount of the prebuilt RPMs              *)
(***************************************************************************)
\* p("tmp/zfs-fedora-installer-prebuilt-rpms")
target_rpms_path == "prebuilt-rpms"

preFrame == <<stageVars, vmVars, retryVars, pmVars, runVars, teeVars, rwVars,
              umVars>>
preQuiet == <<undoVars, withVars, ctxVars, lodev, pools, luksOpen, visible>>

\* deploy_zfs_in_machine is called, with or without prebuilt_rpms_path
PrebuiltCall ==
    /\ ppc = "idle"
    /\ wpc \in {"out", "left"}
    /\ upc = "idle"
    /\ pruns < MaxRuns
    /\ pruns' = pruns + 1
    /\ \E given \in BOOLEAN : prebuilt' = given
    /\ ppc' = "called"
    /\ actions' = [actions EXCEPT !["u"] = <<>>]
    /\ UNCHANGED <<nextId, undoVars, withVars, hostVars, ctxVars, preFrame>>

\* with undoer:
PrebuiltWith ==
    /\ ppc = "called"
    /\ wpc \in {"out", "left"}
    /\ UndoerEnter

\* lines 1799-1815: the directory is made and the RPMs are bind-mounted on it,
\* unless they already are
PrebuiltMount ==
    /\ ppc = "called"
    /\ wpc = "body"
    /\ IF ~prebuilt
       THEN /\ ppc' = "install"
            /\ UNCHANGED <<dirs, mounted>>
       ELSE /\ dirs' = dirs \cup {target_rpms_path}
            /\ \E same \in BOOLEAN, unmounts \in BOOLEAN, mounts \in BOOLEAN :
                 IF target_rpms_path \in mounted /\ same
                 THEN /\ ppc' = "to_rmdir"
                      /\ UNCHANGED mounted
                 ELSE IF target_rpms_path \in mounted /\ ~unmounts
                 THEN /\ ppc' = "raised"
                      /\ UNCHANGED mounted
                 ELSE IF mounts
                 THEN /\ ppc' = "to_rmdir"
                      /\ mounted' = mounted \cup {target_rpms_path}
                 ELSE /\ ppc' = "raised"
                      /\ mounted' = mounted \ {target_rpms_path}
    /\ UNCHANGED <<prebuilt, pruns, ledgerVars, preQuiet, preFrame>>

\* lines 1816-1817
PrebuiltToRmdir ==
    /\ ppc = "to_rmdir"
    /\ IF target_rpms_path \in dirs
       THEN TrackerAppend("u", "rmdir", target_rpms_path)
       ELSE UNCHANGED ledgerVars
    /\ ppc' = "to_unmount"
    /\ UNCHANGED <<prebuilt, pruns, dirs, mounted, preQuiet, preFrame>>

\* lines 1818-1819
PrebuiltToUnmount ==
    /\ ppc = "to_unmount"
    /\ IF target_rpms_path \in mounted
       THEN TrackerAppend("u", "unmount", target_rpms_path)
       ELSE UNCHANGED ledgerVars
    /\ ppc' = "install"
    /\ UNCHANGED <<prebuilt, pruns, dirs, mounted, preQuiet, preFrame>>

\* lines 1820-1840: pkgmgr.install_local_packages, which can fail
PrebuiltInstall ==
    /\ ppc = "install"
    /\ wpc = "body"
    /\ \E ok \in BOOLEAN :
         ppc' = IF ~ok THEN "raised" ELSE IF prebuilt THEN "umount" ELSE "rest"
    /\ UNCHANGED <<prebuilt, pruns, dirs, mounted, ledgerVars, preQuiet, preFrame>>

\* lines 1843-1844: umount(target_rpms_path); undoer.to_unmount.remove(...)
PrebuiltUmount ==
    /\ ppc = "umount"
    /\ \E ok \in BOOLEAN :
         IF ok \/ target_rpms_path \notin mounted
         THEN /\ mounted' = mounted \ {target_rpms_path}
              /\ TrackerRemove("u", "unmount", target_rpms_path)
              /\ ppc' = "rmdir"
         ELSE /\ ppc' = "raised"
              /\ UNCHANGED <<mounted, ledgerVars>>
    /\ UNCHANGED <<prebuilt, pruns, dirs, preQuiet, preFrame>>

\* lines 1845-1846: os.rmdir(target_rpms_path); undoer.to_rmdir.remove(...)
PrebuiltRmdir ==
    /\ ppc = "rmdir"
    /\ \E ok \in BOOLEAN :
         IF ok /\ target_rpms_path \in dirs
         THEN /\ dirs' = dirs \ {target_rpms_path}
              /\ TrackerRemove("u", "rmdir", target_rpms_path)
              /\ ppc' = "rest"
         ELSE /\ ppc' = "raised"
              /\ UNCHANGED <<dirs, ledgerVars>>
    /\ UNCHANGED <<prebuilt, pruns, mounted, preQuiet, preFrame>>

\* the block is left, by an exception if one was raised
PrebuiltExit ==
    /\ ppc \in {"rest", "raised"}
    /\ UndoerExit
    /\ ppc = "raised" => bodyExc'

\* deploy_zfs_in_machine returns or raises
PrebuiltReturn ==
    /\ ppc \in {"rest", "raised"}
    /\ wpc = "left"
    /\ ppc' = "idle"
    /\ UNCHANGED <<prebuilt, pruns, coreVars, preFrame>>

\* deploy_zfs_in_machine is called in a chroot where the directory may exist
\* and may be a mountpoint already
InitPrebuilt ==
    /\ InitLedgers
    /\ InitBdIdle
    /\ InitFsIdle
    /\ InitFsBlank
    /\ cfgVol = "vol.img"
    /\ cfgBoot = NoFile
    /\ files = {}
    /\ ptable = [m \in Media |-> {}]
    /\ visible = [d \in Devs |-> {}]
    /\ lodev = [d \in LoopDevs |-> NoFile]
    /\ lodev0 = lodev
    /\ pools = {}
    /\ luksOpen = {}
    /\ dirs \in {{}, {target_rpms_path}}
    /\ mounted \in {{}, dirs}
    /\ InitStagesIdle
    /\ InitVmIdle
    /\ InitRetryIdle
    /\ InitPmIdle
    /\ InitRunIdle
    /\ InitAuxIdle

NextPrebuilt ==
    \/ PrebuiltCall
    \/ PrebuiltWith
    \/ PrebuiltMount
    \/ PrebuiltToRmdir
    \/ PrebuiltToUnmount
    \/ PrebuiltInstall
    \/ PrebuiltUmount
    \/ PrebuiltRmdir
    \/ PrebuiltExit
    \/ UndoAct
    \/ UndoPop
    \/ UndoFinish
    \/ UndoerLeft
    \/ PrebuiltReturn

SpecPrebuilt == InitPrebuilt /\ [][NextPrebuilt]_vars

(***************************************************************************)
(* cmd.Tee                                                                 *)
(***************************************************************************)
teeFrame == <<coreVars, stageVars, vmVars, retryVars, pmVars, runVars, preVars,
              rwVars, umVars>>

LoopGoesOn(first) == FALSE

\* `if not self.err: self.err = exc; break`
LoopBreaks(first) == first

\* Tee.start(): pollables = {f[0]: f[1:] for f in self.filesets}
TeeStart ==
    /\ tpc = "new"
    /\ pollables' = Inputs
    /\ tpc' = "loop"
    /\ UNCHANGED <<unread, copied, terr, joined, teeFrame>>

\* an iteration of `while pollables:` in which read() returns data, which is
\* written to the output files or fails to be
TeeCopy(f) ==
    /\ tpc = "loop"
    /\ f \in pollables
    /\ unread[f] > 0
    /\ unread' = [unread EXCEPT ![f] = @ - 1]
    /\ \E written \in BOOLEAN :
         IF written
         THEN /\ copied' = [copied EXCEPT ![f] = @ + 1]
              /\ UNCHANGED <<pollables, terr, tpc>>
         ELSE /\ pollables' = pollables \ {f}
              /\ terr' = IF terr = 0 THEN f ELSE terr
              /\ tpc' = IF LoopBreaks(terr = 0) THEN "flush" ELSE "loop"
              /\ UNCHANGED copied
    /\ UNCHANGED <<joined, teeFrame>>

\* an iteration in which read() returns nothing: the file is closed and no
\* longer polled
TeeEof(f) ==
    /\ tpc = "loop"
    /\ f \in pollables
    /\ unread[f] = 0
    /\ pollables' = pollables \ {f}
    /\ UNCHANGED <<unread, copied, terr, tpc, joined, teeFrame>>

\* `while pollables:` ends
TeeLoopEnds ==
    /\ tpc = "loop"
    /\ pollables = {}
    /\ tpc' = "flush"
    /\ UNCHANGED <<pollables, unread, copied, terr, joined, teeFrame>>

\* the output files are flushed and run() returns
TeeFlush ==
    /\ tpc = "flush"
    /\ tpc' = "ended"
    /\ UNCHANGED <<pollables, unread, copied, terr, joined, teeFrame>>

\* Tee.join()
TeeJoin ==
    /\ tpc = "ended"
    /\ joined = "none"
    /\ joined' = IF terr # 0 THEN "raised" ELSE "returned"
    /\ UNCHANGED <<pollables, unread, copied, terr, tpc, teeFrame>>

\* a Tee on two input files that deliver up to MaxChunks chunks each
InitTee ==
    /\ InitCoreIdle
    /\ InitStagesIdle
    /\ InitVmIdle
    /\ InitRetryIdle
    /\ InitPmIdle
    /\ InitRunIdle
    /\ InitPreIdle
    /\ InitRwIdle
    /\ InitUmIdle
    /\ pollables = {}
    /\ unread \in [Inputs -> 0..MaxChunks]
    /\ copied = [f \in Inputs |-> 0]
    /\ terr = 0
    /\ tpc = "new"
    /\ joined = "none"

NextTee ==
    \/ TeeStart
    \/ \E f \in Inputs : TeeCopy(f)
    \/ \E f \in Inputs : TeeEof(f)
    \/ TeeLoopEnds
    \/ TeeFlush
    \/ TeeJoin

SpecTee == InitTee /\ [][NextTee]_vars

(***************************************************************************)
(* cmd.umount                                                              *)
(***************************************************************************)
umFrame == <<coreVars, stageVars, vmVars, retryVars, pmVars, runVars, preVars,
             teeVars, rwVars>>

\* umount(mountpoint, tries) is called on a mountpoint that is mounted or not
UmountCall ==
    /\ mpc \in {"idle", "returned", "raised"}
    /\ ucalls < MaxCalls
    /\ ucalls' = ucalls + 1
    /\ \E n \in 1..MaxTries : tries0' = n /\ tries' = n
    /\ \E m \in BOOLEAN : ismnt' = m
    /\ sleep' = 1
    /\ ucmds' = 0
    /\ slept' = <<>>
    /\ mpc' = "loop"
    /\ UNCHANGED umFrame

\* `if not ismount(mountpoint): return None`
UmountNotMounted ==
    /\ mpc = "loop"
    /\ ~ismnt
    /\ mpc' = "returned"
    /\ UNCHANGED <<tries0, tries, sleep, ismnt, ucmds, slept, ucalls, umFrame>>

\* an iteration of `while True` that runs the umount command
UmountTry ==
    /\ mpc = "loop"
    /\ ismnt
    /\ ucmds' = ucmds + 1
    /\ \E ok \in BOOLEAN :
         IF ok
         THEN /\ ismnt' = FALSE
              /\ mpc' = "returned"
              /\ UNCHANGED <<tries, sleep, slept>>
         ELSE IF tries <= 0
         THEN /\ mpc' = "raised"
              /\ UNCHANGED <<tries, sleep, slept, ismnt>>
         ELSE /\ slept' = Append(slept, sleep)
              /\ tries' = tries - 1
              /\ sleep' = sleep * 2
              /\ \E m \in BOOLEAN : ismnt' = m
              /\ UNCHANGED mpc
    /\ UNCHANGED <<tries0, ucalls, umFrame>>

InitUmount ==
    /\ InitCoreIdle
    /\ InitStagesIdle
    /\ InitVmIdle
    /\ InitExtIdle

NextUmount ==
    \/ UmountCall
    \/ UmountNotMounted
    \/ UmountTry

SpecUmount == InitUmount /\ [][NextUmount]_vars

(***************************************************************************)
(* Properties of the Undoer (SpecUndoer)                                   *)
(***************************************************************************)
Kinds(c) == [k \in 1..Len(c) |-> <<c[k].e.typ, c[k].e.o>>]

IsPrefix(s, t) == Len(s) <= Len(t) /\ \A k \in 1..Len(s) : s[k] = t[k]

\* C1: undo() invokes the undo actions of the entries left in the ledger in
\* reverse insertion order: the k-th action invoked belongs to the k-th entry
\* from the end, entries appended later come first, and a undo() that
\* returns has visited every entry.
C1_UndoReverseInsertionOrder ==
    upc # "idle" =>
        /\ Len(calls) <= Len(snap)
        /\ \A i \in 1..Len(calls) : calls[i].e = snap[Len(snap) - i + 1]
        /\ \A i, j \in 1..Len(calls) : i < j => calls[i].e.id > calls[j].e.id
        /\ upc = "returned" => Len(calls) = Len(snap)

C1_Witness ==
    /\ upc = "returned"
    /\ Len(calls) = 3
    /\ calls[1].e.id = 3
    /\ calls[3].e.id = 1

MountAMountBLoopC ==
    /\ Len(snap) = 3
    /\ <<snap[1].typ, snap[1].o>> = <<"unmount", HandleA>>
    /\ <<snap[2].typ, snap[2].o>> = <<"unmount", HandleB>>
    /\ <<snap[3].typ, snap[3].o>> = <<"un_losetup", HandleC>>

\* C2 (as stated): for the ledger [mount A, mount B, loop-attach C], undo()
\* invokes unmount(B), unmount(A), loop-detach(C) in that order.
C2_Original ==
    (upc = "returned" /\ MountAMountBLoopC) =>
        Kinds(calls) = <<<<"unmount", HandleB>>, <<"unmount", HandleA>>,
                         <<"un_losetup", HandleC>>>>

\* C2 (amended): for the ledger [mount A, mount B, loop-attach C], undo()
\* invokes loop-detach(C), unmount(B), unmount(A) in that order, the reverse
\* of the order of the appends.
C2_UndoLoopCThenBThenA ==
    (upc # "idle" /\ MountAMountBLoopC) =>
        /\ IsPrefix(Kinds(calls), <<<<"un_losetup", HandleC>>,
                                    <<"unmount", HandleB>>,
                                    <<"unmount", HandleA>>>>)
        /\ upc = "returned" => Len(calls) = 3

C2_Witness ==
    /\ upc = "returned"
    /\ MountAMountBLoopC
    /\ Len(calls) = 3

\* C3: while undo() runs, every entry whose action succeeded is gone from the
\* ledger before the next action starts; when an action raises, the ledger is
\* the failed entry and the entries appended before it; no undo action is
\* invoked for an entry whose action already succeeded; undo() of an empty
\* ledger invokes nothing.
C3_LedgerConsistentAfterFailure ==
    /\ upc = "run" => actions[uwho] = SubSeq(snap, 1, Len(todo))
    /\ upc = "raised" =>
          /\ todo # <<>>
          /\ actions[uwho] = SubSeq(snap, 1, Head(todo)[1])
          /\ calls # <<>>
          /\ calls[Len(calls)].e = actions[uwho][Len(actions[uwho])]
    /\ upc \in {"idle", "run", "raised", "returned"} =>
          \A u \in Undoers : \A k \in 1..Len(actions[u]) :
              actions[u][k].id \notin done
    /\ ~redone
    /\ (upc = "returned" /\ snap = <<>>) => calls = <<>>

C3_Witness ==
    /\ upc = "raised"
    /\ Len(snap) = 3
    /\ Len(calls) = 2
    /\ Len(actions[uwho]) = 2
    /\ done # {}
    /\ nfail = 2

\* C5: leaving a `with undoer:` block calls undo() exactly once, whether the
\* body returned or raised, and the exception of the body propagates once
\* undo() is over (unless undo() itself raised).
C5_ExitCallsUndoOnce ==
    /\ wpc = "body" => exitCalls = 0
    /\ wpc = "exit" => (exitCalls = 1 /\ upc # "idle" /\ ucaller = "with")
    /\ wpc = "left" =>
          /\ exitCalls = 1
          /\ propagated = "undo" => nfail > 0
          /\ (bodyExc /\ propagated # "undo") => propagated = "body"
          /\ ~bodyExc => propagated \in {"none", "undo"}

C5_Witness ==
    /\ wpc = "left"
    /\ bodyExc
    /\ propagated = "body"
    /\ Cardinality(done) = 2
    /\ actions["u"] = <<>>

\* the entry of a call is no longer in the ledger undo() works on
GoneFromLedger(e) ==
    \A k \in 1..Len(actions[uwho]) : actions[uwho][k].id # e.id

\* C22: a loop detach that fails with "No such device or address" does not
\* raise: its entry counts as undone, is removed, and undo() goes on to the
\* remaining entries; a loop detach that fails otherwise raises and leaves
\* its entry and every entry appended before it in the ledger.
C22_LosetupNoSuchDeviceIgnored ==
    /\ \A i \in 1..Len(calls) :
          LET c == calls[i]
          IN c.e.typ = "un_losetup" =>
                /\ c.res = "nodev" =>
                      /\ ~(upc = "raised" /\ i = Len(calls))
                      /\ c.e.id \in done
                      /\ (i < Len(calls) \/ upc \in {"run", "returned"}) =>
                             GoneFromLedger(c.e)
                /\ c.res = "fail" =>
                      /\ i = Len(calls)
                      /\ upc = "raised"
                      /\ c.e.id \notin done
                      /\ \E n \in 1..Len(snap) :
                            /\ snap[n] = c.e
                            /\ actions[uwho] = SubSeq(snap, 1, n)
    /\ upc = "returned" => Len(calls) = Len(snap)

\* a tolerated detach was followed by the undo actions of the entries left
C22_Witness ==
    /\ upc = "returned"
    /\ \E i \in 1..Len(calls) :
          /\ i < Len(calls)
          /\ calls[i].e.typ = "un_losetup"
          /\ calls[i].res = "nodev"
    /\ actions[uwho] = <<>>

(***************************************************************************)
(* Properties of blockdev_context (SpecBlockdev)                           *)
(***************************************************************************)
\* the partition number a path suffix names, 0 for the whole device
PartNo(sfx) ==
    CASE sfx \in {"p1", "-part1", "1"} -> 1
      [] sfx \in {"p2", "-part2", "2"} -> 2
      [] sfx \in {"p3", "-part3", "3"} -> 3
      [] sfx \in {"p4", "-part4", "4"} -> 4
      [] OTHER -> 0

Attached(lo) == {d \in LoopDevs : lo[d] # NoFile}

\* no backing file of this installation was on a loop device to begin with
NotAttachedBefore == \A d \in LoopDevs : lodev0[d] \notin BackingFiles

UndoSucceeded == bpc = "out" /\ bruns >= 1 /\ bres \in {"returned", "acq", "body"}

\* C7: blockdev_context(create=False) creates no backing file and does not
\* run the partitioning tool; it yields only if the volume and boot paths
\* exist and the EFI and boot partitions were found; when it fails, the loop
\* devices it had registered are detached once its undo() has returned, before
\* the error leaves the scope.
C7_VerifyModeCreatesNothing ==
    /\ (bpc # "out" /\ ~bcreate) => (~madeFile /\ ~ranGdisk)
    /\ (~bcreate /\ bpc \notin {"out", "vol", "raise", "exit"}) =>
          FileType(cfgVol) # "doesntexist"
    /\ (~bcreate /\ bpc \notin {"out", "vol", "boot", "raise", "exit"}) =>
          (cfgBoot = NoFile \/ FileType(cfgBoot) # "doesntexist")
    /\ (~bcreate /\ bpc \in {"probe2.1", "probe2.0", "root", "yielded"}) =>
          (parts.efi.dev = BootHost /\ parts.boot.dev = BootHost)
    /\ (~bcreate /\ bpc = "yielded") =>
          /\ PathExists(parts.efi.dev, parts.efi.sfx)
          /\ PathExists(parts.boot.dev, parts.boot.sfx)
    /\ (bpc = "exit" /\ upc = "returned" /\ bexc = "acq" /\ ~bcreate) =>
          /\ actions["bd"] = <<>>
          /\ \A k \in 1..Len(snap) : lodev[snap[k].o] = NoFile

C7_Witness ==
    /\ bpc = "exit"
    /\ upc = "returned"
    /\ bexc = "acq"
    /\ ~bcreate
    /\ Len(snap) = 1
    /\ cfgBoot = "boot.img"
    /\ cfgBoot \notin files
    /\ lodev0["loop1"] = NoFile
    /\ lodev[snap[1].o] = NoFile

\* C8 (as stated): two acquisitions in a row, the second with create=False,
\* yield the same partition paths without partitioning again, and after the
\* undo the attached loop devices are those attached before the first
\* acquisition.
C8_Original ==
    /\ (Len(yields) = 2 /\ ~yields[2].create) =>
          (yields[2].parts = yields[1].parts /\ ~yields[2].ranGdisk)
    /\ (bpc = "out" /\ bres = "returned" /\ Len(yields) = bruns) =>
          Attached(lodev) = Attached(lodev0)

\* C8 (amended): when no backing file was attached to a loop device before
\* the first acquisition, two acquisitions in a row, the second with
\* create=False, yield the same partition paths without partitioning again and
\* a successful undo restores the earlier loop attachments; in every case the
\* second acquisition does not partition and a successful undo leaves no loop
\* device attached that was not attached before.
C8_ReacquireSamePartitions ==
    /\ (Len(yields) = 2 /\ ~yields[2].create) =>
          /\ ~yields[2].ranGdisk
          /\ NotAttachedBefore => yields[2].parts = yields[1].parts
    /\ UndoSucceeded =>
          /\ \A d \in LoopDevs : lodev[d] \in {NoFile, lodev0[d]}
          /\ \A d \in LoopDevs : lodev[d] \notin BackingFiles
          /\ NotAttachedBefore => lodev = lodev0

C8_Witness ==
    /\ Len(yields) = 2
    /\ yields[1].create
    /\ yields[1].ranGdisk
    /\ ~yields[2].create
    /\ yields[2].parts = yields[1].parts
    /\ yields[2].parts.root = Part("loop1", "p4")
    /\ NotAttachedBefore
    /\ UndoSucceeded
    /\ lodev = lodev0
    /\ Attached(lodev0) = {"loop0"}

\* C10: when blockdev_context yields, the EFI partition is partition 2 and
\* the boot partition is partition 3 of the device hosting boot (the separate
\* boot device if given, else the volume), the root partition is the whole
\* volume device when a separate boot device was given and partition 4 of the
\* volume otherwise, and all three exist.
C10_YieldedPartitionScheme ==
    bpc = "yielded" =>
        /\ Backing(curVol) = cfgVol
        /\ Backing(BootHost) = IF cfgBoot # NoFile THEN cfgBoot ELSE cfgVol
        /\ parts.efi.dev = BootHost
        /\ PartNo(parts.efi.sfx) = 2
        /\ PathExists(BootHost, parts.efi.sfx)
        /\ parts.boot.dev = BootHost
        /\ PartNo(parts.boot.sfx) = 3
        /\ PathExists(BootHost, parts.boot.sfx)
        /\ parts.root.dev = curVol
        /\ IF cfgBoot # NoFile
           THEN parts.root.sfx = ""
           ELSE /\ PartNo(parts.root.sfx) = 4
                /\ PathExists(curVol, parts.root.sfx)

C10_Witness ==
    /\ bpc = "yielded"
    /\ cfgVol = "vol.img"
    /\ cfgBoot = "boot.img"
    /\ ranGdisk
    /\ parts = [root |-> Part("loop0", ""), boot |-> Part("loop1", "p3"),
                efi |-> Part("loop1", "p2")]

C10_WitnessSingleDisk ==
    /\ bpc = "yielded"
    /\ cfgVol = "wwn-x"
    /\ cfgBoot = NoFile
    /\ parts = [root |-> Part("wwn-x", "-part4"), boot |-> Part("wwn-x", "-part3"),
                efi |-> Part("wwn-x", "-part2")]

(***************************************************************************)
(* Properties of filesystem_context (SpecFs)                               *)
(***************************************************************************)
\* position of a step in filesystem_context
StepNo(pc) ==
    CASE pc = "out" -> 0
      [] pc = "bootfs" -> 1
      [] pc = "luks" -> 2
      [] pc = "pool" -> 3
      [] pc = "ROOT" -> 4
      [] pc = "os" -> 5
      [] pc = "swapvol" -> 6
      [] pc = "zvolwait" -> 7
      [] pc = "swapsig" -> 8
      [] pc = "mountboot" -> 9
      [] pc = "mountefi" -> 10
      [] pc = "binds" -> 11
      [] pc = "yielded" -> 12
      [] pc = "exit" -> 13

\* the resource a ledger entry stands for is still held by the host
Held(e) ==
    CASE e.typ = "unmount" -> e.o \in mounted
      [] e.typ = "export" -> e.o \in pools
      [] e.typ = "luks_close" -> e.o \in luksOpen
      [] OTHER -> FALSE

\* C4: every exit from the filesystem/pool acquisition scope, on success or
\* on failure, has run the ledger undo for every resource registered so far:
\* once filesystem_context is left without undo itself having raised, no
\* resource it registered is still mounted, imported or open.
C4_EveryExitRunsUndo ==
    (fpc = "out" /\ fres \in {"returned", "body", "acq"})
        => \A k \in 1..Len(actions["fs"]) : ~Held(actions["fs"][k])

\* the resource whose absence stops a step when create is false
MissingAt(pc) ==
    CASE pc = "bootfs" -> IF blk["boot"].type # "ext4" THEN "boot file system"
                          ELSE IF blk["efi"].type # "vfat" THEN "EFI file system"
                          ELSE "none"
      [] pc = "luks" -> IF lukspw /\ blk["root"].uuid = NoUuid THEN "LUKS volume"
                        ELSE "none"
      [] pc = "pool" -> IF ~poolDisk THEN "ZFS pool" ELSE "none"
      [] pc = "ROOT" -> IF "ROOT" \notin datasets THEN "ROOT" ELSE "none"
      [] pc = "os" -> IF "ROOT/os" \notin datasets THEN "ROOT/os" ELSE "none"
      [] pc = "swapvol" -> IF "swap" \notin datasets THEN "swap" ELSE "none"
      [] pc = "swapsig" -> IF blk["swap"].type # "swap" THEN "swap volume"
                           ELSE "none"
      [] OTHER -> "none"

\* C6: filesystem_context with create=false never invokes a creating
\* operation; it gets past a step only if the resource of that step is
\* there, and an error raised at a step whose resource is absent names
\* that resource.
C6_VerifyModeNeverCreates ==
    (fpc # "out" /\ ~fcreate) =>
        /\ created = {}
        /\ StepNo(fpc) > 1 => (blk["boot"].type = "ext4" /\ blk["efi"].type = "vfat")
        /\ (StepNo(fpc) > 2 /\ lukspw) => blk["root"].uuid # NoUuid
        /\ StepNo(fpc) > 3 => poolDisk
        /\ StepNo(fpc) > 4 => "ROOT" \in datasets
        /\ StepNo(fpc) > 5 => "ROOT/os" \in datasets
        /\ StepNo(fpc) > 6 => "swap" \in datasets
        /\ StepNo(fpc) > 8 => blk["swap"].type = "swap"
        /\ (fexc = "acq" /\ MissingAt(fpc) # "none") => ferr = MissingAt(fpc)

\* create=false stops at the swap signature, after the pool was imported
C6_Witness ==
    /\ fpc = "swapsig"
    /\ ~fcreate
    /\ fexc = "acq"
    /\ ferr = "swap volume"
    /\ PoolName \in pools
    /\ created = {}

\* C9: setup_boot_filesystems runs no mkfs command when boot is already
\* ext4 and EFI already vfat, and a call with create=false returns the boot
\* and EFI UUIDs the call before it returned, which are those on the disk.
C9_SetupBootFilesystemsIsNoop ==
    \A k \in 1..Len(setups) :
        /\ setups[k].had => setups[k].mkfs = {}
        /\ setups[k].boot # NoUuid
        /\ setups[k].efi # NoUuid
        /\ (k > 1 /\ ~setups[k].create) =>
               /\ setups[k].mkfs = {}
               /\ setups[k].boot = setups[k - 1].boot
               /\ setups[k].efi = setups[k - 1].efi
        /\ k = Len(setups) =>
               /\ setups[k].boot = blk["boot"].uuid
               /\ setups[k].efi = blk["efi"].uuid

\* a creating call formatted both partitions, the call after it verified them
C9_Witness ==
    /\ Len(setups) = 2
    /\ setups[1].create
    /\ setups[1].mkfs = {"mkfs.ext4", "mkfs.vfat"}
    /\ ~setups[2].create
    /\ setups[2].had
    /\ setups[2].mkfs = {}
    /\ setups[2].boot = setups[1].boot
    /\ setups[2].efi = setups[1].efi

\* the step of filesystem_context that deals with the pool
PoolStep == fpc = "pool" /\ fexc = "none" /\ (fpc' # fpc \/ fexc' # fexc)

ExportRegistered(a) ==
    /\ Len(a) > 0
    /\ a[Len(a)].typ = "export"
    /\ a[Len(a)].o = PoolName

PoolStepRight ==
    /\ PoolName \in pools =>
          /\ created' = created
          /\ pools' = pools
          /\ poolDisk' = poolDisk
          /\ mounted' = mounted
          /\ fexc' = "none"
    /\ "zpool create" \in created' =>
          /\ fcreate
          /\ PoolName \notin pools
          /\ ~poolDisk \/ nfail' = nfail + 1
    /\ PoolName \notin pools /\ created' = created /\ fexc' = "none" =>
          /\ poolDisk
          /\ PoolName \in pools'
    /\ fexc' = "none" =>
          /\ fpc' = "ROOT"
          /\ Len(actions'["fs"]) = Len(actions["fs"]) + 1
          /\ ExportRegistered(actions'["fs"])

\* C31: when the pool is already active filesystem_context neither imports
\* nor creates it; otherwise the import comes first and zpool create runs
\* only with create=True after the import failed; whenever acquisition goes
\* on past the pool, the export of the pool is the newest ledger entry
C31_ImportBeforeCreate == [][PoolStep => PoolStepRight]_vars

\* zpool create ran after a failed import and the pool is to be exported
C31_Witness ==
    /\ fpc = "ROOT"
    /\ fexc = "none"
    /\ "zpool create" \in created
    /\ PoolName \in pools
    /\ ExportRegistered(actions["fs"])

\* the pool step is reached with the pool already active
C31_ActiveWitness == fpc = "pool" /\ fexc = "none" /\ PoolName \in pools

(***************************************************************************)
(* Properties of the stage loop (SpecStages)                               *)
(***************************************************************************)
\* the order the stages are declared in
DeclaredOrder ==
    <<"beginning", "deploy_zfs", "reload_chroot", "bootloader_install",
      "boot_to_test_non_hostonly", "boot_to_test_hostonly">>

\* position of a stage in the declared order
Pos(st) == CHOOSE k \in 1..Len(DeclaredOrder) : DeclaredOrder[k] = st

\* the stages declared from position a to position b
Stretch(a, b) == SubSeq(DeclaredOrder, a, b)

HasControlChar(string) == \E k \in 1..Len(string) : string[k] < 32

\* C11: without short_circuit and break_before the stage bodies run in the
\* declared order, each at most once; a body starts only after the one
\* before it returned; a stage that raises ends the run with no later stage
\* started, and a run that ends without exception has run all six.
C11_StagesRunInDeclaredOrder ==
    (break_before = "none" /\ short0 = "none") =>
        /\ IsPrefix(ran, DeclaredOrder)
        /\ IsPrefix(returned, ran)
        /\ Len(ran) <= Len(returned) + 1
        /\ Len(ran) = Len(returned) + 1 => spc \in {"body", "raised", "exited"}
        /\ spc = "body" => sexc = "none"
        /\ sexc \in {"Exception", "ZFSMalfunction"} =>
               /\ spc \in {"raised", "exited"}
               /\ Len(ran) = Len(returned) + 1
        /\ (spc \in {"returned", "exited"} /\ sexc = "none" /\ ran # <<>>) =>
               returned = DeclaredOrder
        /\ sexc # "BreakingBefore"

\* all six stages ran and the entry point reported success
C11_Witness ==
    /\ break_before = "none"
    /\ short0 = "none"
    /\ spc = "exited"
    /\ status = 0
    /\ returned = DeclaredOrder

\* C12: with break_before=X and no short_circuit, neither X nor a later stage
\* ever runs; when BreakingBefore is raised it names X, every stage declared
\* before X has returned and no body is running; the entry point then returns
\* 120, which it returns for no other outcome, and it never returns 0.
C12_BreakBeforeStopsAtStage ==
    (break_before # "none" /\ short0 = "none") =>
        /\ IsPrefix(ran, Stretch(1, Pos(break_before) - 1))
        /\ IsPrefix(returned, ran)
        /\ sexc = "BreakingBefore" =>
               /\ brokeAt = break_before
               /\ returned = Stretch(1, Pos(break_before) - 1)
               /\ ran = returned
        /\ (spc = "exited" /\ sexc = "BreakingBefore") => status = 120
        /\ (spc = "exited" /\ status = 120) => sexc = "BreakingBefore"
        /\ spc = "exited" => status # 0
        /\ spc # "returned"

\* broke before reload_chroot after beginning and deploy_zfs returned
C12_Witness ==
    /\ break_before = "reload_chroot"
    /\ short0 = "none"
    /\ spc = "exited"
    /\ status = 120
    /\ returned = <<"beginning", "deploy_zfs">>

\* C13: with short_circuit=X and break_before absent or naming a stage
\* declared after X, no stage before X runs and the stages run in declared
\* order from X, up to but excluding the break_before stage; the skip is
\* cleared once X has returned; BreakingBefore is raised only after every
\* stage from X up to the break_before stage has returned.
C13_ShortCircuitSkipsToStage ==
    (/\ short0 # "none"
     /\ break_before # "none" => Pos(break_before) > Pos(short0)) =>
        LET upto == IF break_before = "none" THEN Len(DeclaredOrder)
                    ELSE Pos(break_before) - 1
        IN /\ IsPrefix(ran, Stretch(Pos(short0), upto))
           /\ IsPrefix(returned, ran)
           /\ returned # <<>> => short_circuit = "none"
           /\ returned = <<>> => short_circuit = short0
           /\ sexc = "BreakingBefore" =>
                  /\ brokeAt = break_before
                  /\ returned = Stretch(Pos(short0), upto)
           /\ (spc \in {"returned", "exited"} /\ sexc = "none" /\ preflight = "ok") =>
                  /\ break_before = "none"
                  /\ returned = Stretch(Pos(short0), Len(DeclaredOrder))

\* short-circuited to reload_chroot and broke before the first test boot
C13_Witness ==
    /\ short0 = "reload_chroot"
    /\ break_before = "boot_to_test_non_hostonly"
    /\ sexc = "BreakingBefore"
    /\ returned = <<"reload_chroot", "bootloader_install">>
    /\ status = 120

\* C14: with short_circuit=X, a break_before naming a stage declared before
\* X does not raise BreakingBefore.
C14_NoBreakBeforeSkippedStage ==
    (/\ short0 # "none"
     /\ break_before # "none"
     /\ Pos(break_before) < Pos(short0)) => sexc # "BreakingBefore"

\* C15: when the LUKS passphrase or the root password holds a character
\* with ordinal below 32, install_fedora raises ImpossiblePassphrase and
\* nothing else: no stage body is ever called, so no backing file, loop
\* device, partition table, filesystem, pool or mount has come to be.
C15_UntypeablePasswordRejected ==
    (HasControlChar(lukspassword) \/ HasControlChar(rootpassword)) =>
        /\ ran = <<>>
        /\ spc \notin {"loop", "body", "returned"}
        /\ spc = "raised" => sexc = "ImpossiblePassphrase"
        /\ sexc \in {"none", "ImpossiblePassphrase"}
        /\ (spc = "exited" /\ preflight = "ok") =>
               /\ sexc = "ImpossiblePassphrase"
               /\ status = EX_USAGE
        /\ files = {}
        /\ \A d \in LoopDevs : lodev[d] = NoFile
        /\ \A m \in Media : ptable[m] = {}
        /\ \A x \in FsParts : blk[x] = Blank
        /\ pools = {}
        /\ mounted = {}

\* a passphrase that ends in a control character was rejected
C15_Witness ==
    /\ lukspassword = <<32, 31>>
    /\ ~HasControlChar(rootpassword)
    /\ spc = "exited"
    /\ sexc = "ImpossiblePassphrase"
    /\ status = EX_USAGE
    /\ ran = <<>>

(***************************************************************************)
(* Properties of the boot supervisor (SpecVm, SpecVmFair)                  *)
(***************************************************************************)
Signatures == {"SystemdSegfault", "BadPW", "OOMed", "Panicked", "Emergency"}

\* boot_image_in_qemu has ended a console-driven boot
BootOver == qpc = "done" /\ ~interactive

\* C16: a console-driven boot_image_in_qemu returns normally only if the
\* emulator exit code is 0, a shutdown marker is in the console output and
\* no failure signature was detected; with exit code 0, no failure signature
\* and no marker it raises MachineNeverShutoff.
C16_CleanShutdownNeedsMarkerAndZero ==
    BootOver =>
        /\ vres = "returned" =>
               /\ retcode = 0
               /\ sawMarker
               /\ firstMatch = "none"
        /\ (retcode = 0 /\ firstMatch = "none" /\ ~sawMarker) =>
               vres = "MachineNeverShutoff"
        /\ (retcode = 0 /\ firstMatch = "none" /\ sawMarker) => vres = "returned"

\* exit code 0, nothing but a plain line on the console: MachineNeverShutoff
C16_Witness ==
    /\ BootOver
    /\ retcode = 0
    /\ nread > 0
    /\ firstMatch = "none"
    /\ ~sawMarker
    /\ vres = "MachineNeverShutoff"

\* C17: an emulator killed by the supervisor (exit code -9) while the console
\* driver was still alive, expecting the machine to run, makes
\* boot_image_in_qemu raise a wedged-bootloader failure of its own.
C17_TimeoutKillIsWedgedBootloader ==
    (BootOver /\ killed /\ aliveAtKill /\ retcode = -9) =>
        vres = "WedgedBootloader"

\* C18: the first line read that holds a failure pattern fixes the error of
\* the driver by its class (segfault before authentication before
\* out-of-memory before panic before emergency when a line holds several),
\* the driver thread ends with it, and it reads no console item and writes
\* nothing after the error is set; no other line gives one of these errors.
C18_FirstSignatureHaltsDriver ==
    /\ readAfter = 0
    /\ derror \in Signatures => (firstMatch # "none" /\ dpc = "dead")
    /\ firstMatch # "none" => derror \in Signatures
    /\ firstMatch \in {"segfault", "oom+segfault"} => derror = "SystemdSegfault"
    /\ firstMatch = "auth" => derror = "BadPW"
    /\ firstMatch = "oom" => derror = "OOMed"
    /\ firstMatch \in {"panic", "emergency+panic"} => derror = "Panicked"
    /\ firstMatch = "emergency" => derror = "Emergency"

\* the driver typed something, then read an out-of-memory line and ended;
\* what the guest wrote after that line stays unread
C18_Witness ==
    /\ firstMatch = "oom"
    /\ derror = "OOMed"
    /\ dpc = "dead"
    /\ nwritten > 0
    /\ pending # "none"
    /\ nread < emitted

\* C19: a boot that fails with SystemdSegfault is reported by biiq only
\* after boot_image_in_qemu has been attempted more than once.
C19_SegfaultIsRetried ==
    (bqpc = "idle" /\ biiqRes = "SystemdSegfault") => attempts > 1

\* C20: in a console-driven boot the time budget is the stage's timeout,
\* times qemu_full_emulation_factor without KVM; once the wait loop is over
\* the emulator has exited, killed if need be; and a boot_image_in_qemu that
\* was started always ends.
C20_BootAlwaysEnds ==
    /\ [](qpc = "wait" =>
            budget <= QemuTimeout * factor
                      * (IF kvm THEN 1 ELSE qemu_full_emulation_factor))
    /\ []((~interactive /\ qpc \in {"join", "final", "done"}) => emu = "exited")
    /\ [](killed => retcode = -9)
    /\ ((qpc = "wait") ~> (qpc = "done"))

\* without KVM, the guest hung until the budget was used up and was killed
C20_Witness ==
    /\ BootOver
    /\ ~kvm
    /\ killed
    /\ aliveAtKill
    /\ budget = 0
    /\ emitted = 0

(***************************************************************************)
(* Properties of retry (SpecRetry)                                         *)
(***************************************************************************)
\* every invocation of the current call raised the retryable exception
AllRetryable == \A i \in 1..Len(rlog) : rlog[i] = "retryable"

\* C21: a call of a callable wrapped by retry(N) invokes it at most N+1
\* times; when every invocation raises the retryable exception it is invoked
\* exactly N+1 times before the exception propagates; an exception of another
\* type propagates from the invocation that raised it
C21_RetryGivesNPlusOneTries ==
    /\ Len(rlog) <= rN0 + 1
    /\ rpc = "raised" /\ AllRetryable => Len(rlog) = rN0 + 1
    /\ \A i \in 1..Len(rlog) :
          rlog[i] = "other" => i = Len(rlog) /\ rpc = "raised"

(***************************************************************************)
(* Properties of the package managers (SpecPm)                             *)
(***************************************************************************)
\* C23: every package manager queries the installed state first and runs no
\* install command when the packages are installed: a call made after a call
\* that returned normally runs no install command.
C23_SecondCallInstallsNothing ==
    \A p \in Procs :
        /\ pmCmds[p] # <<>> => pmCmds[p][1] = "rpm -q"
        /\ (pmPrevOk[p] /\ pmpc[p] # "idle") =>
               \A i \in 1..Len(pmCmds[p]) : pmCmds[p][i] \notin InstallCmds

\* a package-manager command of process p may be running
InOp(p) == pmpc[p] \in {"query", "download", "install"}

\* both processes were given the same persistent cache directory
ShareCacheDir(p, q) ==
    /\ p # q
    /\ pmKind[p] = "chroot" /\ pmCache[p]
    /\ pmKind[q] = "chroot" /\ pmCache[q]

\* C24 as stated: two installer processes given the same cache directory
\* never run a package-manager operation at the same time.
C24_Original ==
    \A p \in Procs, q \in Procs : ShareCacheDir(p, q) => ~(InOp(p) /\ InOp(q))

\* C24: with a cache directory configured, the lock of the cache directory
\* computed for the host version, architecture and releasever is held from
\* before the cache is mounted until after it is unmounted, on normal and
\* exceptional exit, and no lock is held outside the call; processes with
\* the same cache directory and releasever never run a package-manager
\* operation at the same time.
C24_CacheLockHeldDuringOperation ==
    /\ \A p \in Procs :
          /\ (pmCache[p] /\ pmpc[p] \in {"mount", "query", "download", "install",
                                         "finally", "unlock"}) =>
                 lockOwner[CacheLock(p)] = p
          /\ pmpc[p] \in {"idle", "done"} =>
                 \A l \in LockFiles : lockOwner[l] # p
    /\ \A p \in Procs, q \in Procs :
          (ShareCacheDir(p, q) /\ pmRel[p] = pmRel[q]) => ~(InOp(p) /\ InOp(q))

\* one process runs a command while the other waits for the same lock, after
\* a call that ended with an exception
C24_Witness ==
    \E p \in Procs, q \in Procs :
        /\ ShareCacheDir(p, q)
        /\ pmRel[p] = pmRel[q]
        /\ InOp(p)
        /\ pmpc[q] = "lock_cache"
        /\ pmCalls[p] = 2
        /\ ~pmPrevOk[p]

(***************************************************************************)
(* Properties of the functions that open both context managers            *)
(* (SpecScopes)                                                            *)
(***************************************************************************)
\* C25: reload_chroot runs `zfs snapshot` only when the snapshot does not
\* exist: a command that created the snapshot is the last one ever run, so
\* the snapshot is created at most once however often the stage runs, and a
\* snapshot that was there before is never taken again.
C25_SnapshotTakenOnce ==
    /\ \A i \in 1..Len(snapLog) : snapLog[i] = "ok" => i = Len(snapLog)
    /\ (snapLog # <<>> /\ snapLog[Len(snapLog)] = "ok") => snapExists
    /\ (snapExists /\ \A i \in 1..Len(snapLog) : snapLog[i] # "ok") =>
           snapLog = <<>>

\* reload_chroot runs again after a run of it has taken the snapshot
C25_Witness ==
    /\ scope = "reload_chroot"
    /\ bruns = 2
    /\ npc = "open"
    /\ fpc = "yielded"
    /\ snapLog = <<"ok">>
    /\ snapExists

\* the undo actions of a filesystem_context that has yielded, first to last
FsUndoOrder ==
    <<<<"unmount", "root/sys">>, <<"unmount", "root/proc">>,
      <<"unmount", "root/boot/efi">>, <<"unmount", "root/boot">>,
      <<"unmount", "root">>, <<"export", PoolName>>>>
    \o (IF luksName # NoFile THEN <<<<"luks_close", luksName>>>> ELSE <<>>)

\* C28: the undo of filesystem_context unmounts /sys, /proc, /boot/efi, /boot
\* and the root dataset in that order, then exports the pool, then closes the
\* LUKS mapping, all while the loop devices of the enclosing blockdev_context
\* are attached; the loop devices are detached only after filesystem_context
\* is left, when (its undo having succeeded) nothing is mounted, imported or
\* mapped any more.
C28_ChildrenBeforeParents ==
    /\ ucaller = "fs" =>
          /\ IsPrefix(Kinds(calls), FsUndoOrder)
          /\ upc = "returned" => Kinds(calls) = FsUndoOrder
          /\ bpc = "yielded"
          /\ StillAttached(cfgVol)
    /\ (ucaller = "bd" /\ calls # <<>>) =>
          /\ fpc = "out"
          /\ \A k \in 1..Len(calls) : calls[k].e.typ = "un_losetup"
          /\ (fruns > fruns0 /\ fres \in {"returned", "body"}) =>
                 (mounted = {} /\ pools = {} /\ luksOpen = {})

\* the loop device is detached after the mounts, the pool and the LUKS
\* mapping of the scope inside were released
C28_Witness ==
    /\ ucaller = "bd"
    /\ upc = "returned"
    /\ calls # <<>>
    /\ calls[1].res = "ok"
    /\ fruns > fruns0
    /\ fres = "returned"
    /\ lukspw

\* C29: only beginning passes create=True: while any other function has the
\* context managers open, both run with create=False and no backing file,
\* partition table, file system, LUKS volume, pool or dataset is created.
C29_OnlyBeginningCreates ==
    scope \notin {"none", "beginning"} =>
        /\ bpc # "out" => (~bcreate /\ ~madeFile /\ ~ranGdisk)
        /\ fpc # "out" => (~fcreate /\ created = {})

\* C30: boot_image_in_qemu is called only after the with statement of
\* fish_kernel_initrd has been left, when no loop device is attached to the
\* volume or to the boot image: its assertions never fail.
C30_NoLoopDeviceAtLaunch ==
    /\ vres # "AssertionError"
    /\ bqpc \in {"boot", "booting"} =>
          (~StillAttached(cfgVol) /\ ~StillAttached(cfgBoot))

\* the emulator runs on an image that was on a loop device before biiq
C30_Witness ==
    /\ bqpc = "booting"
    /\ emu = "running"
    /\ lodev0["loop1"] = "vol.img"

\* a stage function has returned without an exception
BetweenStages ==
    /\ npc = "idle"
    /\ bruns > 0
    /\ bres = "returned"
    /\ fres = "returned"

NothingHeld ==
    /\ \A d \in LoopDevs : lodev[d] = NoFile
    /\ luksOpen = {}
    /\ pools = {}
    /\ mounted = {}

\* C37: when a stage has returned, which it does only if every undo action
\* succeeded, and so too when BreakingBefore is raised before the next one, no
\* loop device is attached, no LUKS mapping is open, no pool is imported and
\* nothing is mounted
C37_NothingHeldBetweenStages == BetweenStages => NothingHeld

\* a stage that opened a LUKS volume and imported the pool has returned
C37_Witness ==
    /\ BetweenStages
    /\ lukspw
    /\ scope = "none"
    /\ bruns = 2
    /\ NothingHeld

\* the ledger of a context manager holds an entry of this kind and handle
Registered(u, typ, o) ==
    \E i \in 1..Len(actions[u]) : actions[u][i].typ = typ /\ actions[u][i].o = o

\* every resource the two context managers work on is on a ledger
AllRegistered ==
    /\ \A d \in LoopDevs :
         lodev[d] \in ({cfgVol, cfgBoot} \cap BackingFiles) =>
             Registered("bd", "un_losetup", d)
    /\ \A n \in luksOpen : Registered("fs", "luks_close", n)
    /\ \A pl \in pools : Registered("fs", "export", pl)
    /\ \A m \in mounted : Registered("fs", "unmount", m)

\* C38: what a function finds in place is registered like what it acquires:
\* when both context managers have yielded, every attached loop device of the
\* image, open LUKS mapping, imported pool and mounted mountpoint is on a
\* ledger, and once a context manager that yielded has been left with its
\* ledger undone, none of them is left, whatever was in place at the call
C38_FoundInPlaceIsReleased ==
    /\ (npc # "idle" /\ fpc = "yielded") => AllRegistered
    /\ (npc # "idle" /\ fpc = "out" /\ fruns > fruns0
          /\ fres \in {"returned", "body"}) =>
             (luksOpen = {} /\ pools = {} /\ mounted = {})
    /\ (npc # "idle" /\ bpc = "out" /\ bruns > bruns0
          /\ bres \in {"returned", "body"}) =>
             \A d \in LoopDevs : lodev[d] \notin BackingFiles

\* a function that found the loop device attached, the LUKS mapping open, the
\* pool imported and the boot file system mounted has returned
C38_Witness ==
    /\ BetweenStages
    /\ \E d \in LoopDevs : inPlace.lodev[d] \in BackingFiles
    /\ inPlace.luks # {}
    /\ inPlace.pools # {}
    /\ inPlace.mounted # {}
    /\ NothingHeld

\* an iteration of the wait loop whose wait(t) was made
PollStep == qpc = "wait" /\ budget' # budget

\* what the TimeoutExpired handler does with an emulator that still runs
PollRight ==
    /\ (emu = "running" /\ dpc = "dead") =>
          (killed' /\ ~aliveAtKill' /\ emu' = "exited")
    /\ (emu = "running" /\ dpc # "dead" /\ budget' > 0) =>
          (~killed' /\ emu' = "running")

\* C39: an iteration of the wait loop that finds the emulator running and the
\* driver thread dead kills the emulator, whatever budget is left; one that
\* finds the driver alive with budget left does not; and the emulator is
\* killed by such an iteration only.
C39_DeadDriverKillsAtNextPoll ==
    [][(PollStep => PollRight) /\ ((killed' /\ ~killed) => PollStep)]_vars

\* the driver ended on a failure signature and the emulator was killed with
\* budget left
C39_Witness ==
    /\ killed
    /\ ~aliveAtKill
    /\ budget > 0
    /\ derror \in Signatures

\* C40: once boot_image_in_qemu is over, a failure signature the driver
\* detected is what it raised, whatever the exit code of the emulator, and it
\* raised QEMUDied only for a driver that reported MachineNeverShutoff and an
\* exit code other than zero.
C40_SignatureIsWhatIsRaised ==
    /\ (BootOver /\ derror \in Signatures) => vres = derror
    /\ (BootOver /\ vres = "QEMUDied") =>
          (derror = "MachineNeverShutoff" /\ retcode # 0)

\* the driver ended on a failure signature, the emulator was killed and the
\* signature's exception was raised
C40_Witness ==
    /\ BootOver
    /\ derror \in Signatures
    /\ killed
    /\ retcode = -9
    /\ vres = derror

\* ---------------------------------------------------------------------------
\* Properties of the boot driver (SpecDriver)
\* ---------------------------------------------------------------------------

RankIn(states, st) == CHOOSE k \in 1..Len(states) : states[k] = st

\* a path never goes back and never skips a state
Forward(states, path) ==
    \A k \in 1..(Len(path) - 1) :
        RankIn(states, path[k + 1]) - RankIn(states, path[k]) \in {0, 1}

Count(seq, x) == Cardinality({k \in 1..Len(seq) : seq[k] = x})

\* the local s of the iteration that a step of the driver runs
StepLine == IF pending \in Prompts THEN lastline' ELSE lastline

PassphraseState ==
    /\ Count(typed, "passphrase") <= 1
    /\ (Count(typed, "passphrase") = 1) <=> (luksState = "written")
    /\ ~withLuks => (Count(typed, "passphrase") = 0 /\ luksState = "unseen")

PassphraseStep ==
    /\ RankIn(LuksStates, luksState') >= RankIn(LuksStates, luksState)
    /\ nread' = nread + 1 => Forward(LuksStates, LuksPath(luksState, StepLine))
    /\ Count(typed', "passphrase") > Count(typed, "passphrase") =>
          /\ luksState = "waiting_for_escape_sequence"
                \/ "nter passphrase for" \in StepLine
          /\ StepLine \cap {"[0m", ")!"} # {}

\* C26: within a boot the passphrase automaton only moves forward through
\* unseen, waiting_for_escape_sequence, pending_write and written; the
\* passphrase is written at most once, only when the prompt text has been seen
\* and the line not yet ended holds an end-of-prompt marker, never again
\* afterwards, and never when no passphrase is configured
C26_PassphraseWrittenOnce == []PassphraseState /\ [][PassphraseStep]_vars

\* the passphrase was written, a line ended, the prompt text came back and
\* nothing more was written for it
C26_Witness ==
    /\ withLuks
    /\ luksState = "written"
    /\ Count(typed, "passphrase") = 1
    /\ "nter passphrase for" \in lastline
    /\ lastline \cap {"[0m", ")!"} = {}
    /\ nread = 4

NotPassphrase(x) == x # "passphrase"

\* what the login automaton has written
LoginWrites(t) == SelectSeq(t, NotPassphrase)

LoginOrder == <<"ENTER", "login", "password", "poweroff">>

\* the prompt each write answers
PromptOf == [ENTER |-> "(ttyS0)", login |-> " login: ",
             password |-> "Password: ", poweroff |-> " ~]# "]

\* the state the automaton rests in after k writes
RestsAfter == <<"unseen", "login_prompt_about_to_appear", "login_written",
                "password_written", "poweroff_written">>

LoginState ==
    /\ IsPrefix(LoginWrites(typed), LoginOrder)
    /\ loginState = RestsAfter[Len(LoginWrites(typed)) + 1]

LoginStep ==
    /\ RankIn(LoginStates, loginState') >= RankIn(LoginStates, loginState)
    /\ nread' = nread + 1 => Forward(LoginStates, LoginPath(loginState, StepLine))
    /\ \A k \in (Len(LoginWrites(typed)) + 1)..Len(LoginWrites(typed')) :
          PromptOf[LoginWrites(typed')[k]] \in StepLine

\* C27: within a boot the login automaton only moves forward through its
\* declared states; the driver writes ENTER, the login name, the password and
\* poweroff in that order, each at most once and each when its prompt is in
\* the line not yet ended
C27_LoginWritesInOrder == []LoginState /\ [][LoginStep]_vars

\* the driver has logged in and powered the guest off
C27_Witness ==
    /\ LoginWrites(typed) = LoginOrder
    /\ loginState = "poweroff_written"
    /\ lastline = {"(ttyS0)", " login: ", "Password: ", " ~]# "}

(***************************************************************************)
(* Properties of Tracker.remove in deploy_zfs_in_machine (SpecPrebuilt)    *)
(***************************************************************************)
\* a ledger without its newest entry of that kind and handle
WithoutNewest(a, typ, o) ==
    LET hits == {k \in 1..Len(a) : a[k].typ = typ /\ a[k].o = o}
        m == CHOOSE k \in hits : \A h \in hits : h <= k
    IN IF hits = {} THEN a ELSE SubSeq(a, 1, m - 1) \o SubSeq(a, m + 1, Len(a))

Cancels(typ) ==
    /\ actions'["u"] = WithoutNewest(actions["u"], typ, target_rpms_path)
    /\ calls' = calls

RemoveCancels ==
    /\ ppc = "umount" /\ ppc' = "rmdir" => Cancels("unmount")
    /\ ppc = "rmdir" /\ ppc' = "rest" => Cancels("rmdir")

NothingLeftToUndo ==
    ppc = "rest" =>
       /\ \A k \in 1..Len(actions["u"]) : actions["u"][k].o # target_rpms_path
       /\ \A k \in 1..Len(calls) : calls[k].e.o # target_rpms_path
       /\ upc # "raised"

C33_TeeCopiesEveryStreamToItsEnd ==
    /\ tpc \in {"flush", "ended"} => pollables = {}
    /\ joined = "raised" <=> (tpc = "ended" /\ joined # "none" /\ terr # 0)

(***************************************************************************)
(* Properties of _run_with_retries (SpecRunWithRetries)                    *)
(***************************************************************************)
\* the run is one the claim calls retryable
FailedRetryably(r) ==
    r.ret # 0 /\ (downloadonly \/ r.out = "error: Plugin selinux")

RpmdbOutputs == {"Rpmdb checksum is invalid",
                 "You probably have corrupted RPMDB",
                 "Thread died in Berkeley DB library"}

\* C35: a command that exits non-zero and reports RPM database corruption
\* raises a retryable error, not a plain command failure
C35_RpmdbCorruptionIsRetryable ==
    \A k \in 1..Len(runs) :
        (runs[k].ret # 0 /\ runs[k].out \in RpmdbOutputs) =>
            rlog[k] \in {"DownloadFailed", "PluginSelinuxRetryable",
                         "RpmdbCorruptionError"}

(***************************************************************************)
(* Properties of umount (SpecUmount)                                       *)
(***************************************************************************)
\* C36: umount returns without running a command when the target is not
\* mounted; otherwise it runs the umount command `tries` times at most, the
\* sleeps in between doubling from one second, and raises when the last
\* attempt fails
C36_UmountTriesAtMostTriesTimes ==
    /\ ucmds <= tries0
    /\ \A k \in 1..Len(slept) : slept[k] = 2 ^ (k - 1)
    /\ Len(slept) <= ucmds
    /\ mpc = "raised" => (ismnt /\ ucmds > 0)
    /\ mpc = "returned" => ~ismnt

\* the bound the code keeps: one run more than tries
UmountRunsBounded == ucmds <= tries0 + 1

====
